---- MODULE Spec2Model ----
(***************************************************************************)
(* Drought / flood risk dashboard: the model layer (mlModels.ts,           *)
(* enhancedMLModels.ts), the preprocessors (dataPreprocessor.ts,           *)
(* enhancedDataPreprocessor.ts), the orchestrator (apiService.ts) and the  *)
(* dashboard hook (useDashboard).                                          *)
(*                                                                         *)
(* JavaScript numbers are modelled as exact rationals [k, n, d] with a     *)
(* NaN value; Math.sqrt is rounded down to a multiple of 1/1000.           *)
(***************************************************************************)
EXTENDS Integers, Sequences, FiniteSets, TLC

VARIABLES isTrained, trainRuns, calls, returned, state, chartData, created

vars == <<isTrained, trainRuns, calls, returned, state, chartData, created>>

(***************************************************************************)
(* Bounds of the model.                                                    *)
(***************************************************************************)
MaxCalls == 2
MaxPredictions == 1
MaxResults == 2
MaxFitFailures == 1
MaxLen == 5
MaxExamples == 12
NumTrees == 2

(***************************************************************************)
(* Numbers.                                                                *)
(***************************************************************************)
NaN == [k |-> "nan", n |-> 0, d |-> 1]

AbsInt(i) == IF i < 0 THEN -i ELSE i

RECURSIVE GCD(_, _)
GCD(a, b) == IF b = 0 THEN a ELSE GCD(b, a % b)

\* n / d for d # 0, in lowest terms with a positive denominator
R(n, d) ==
  LET g == GCD(AbsInt(n), AbsInt(d))
      s == IF d < 0 THEN -1 ELSE 1
  IN  [k |-> "num", n |-> (s * n) \div g, d |-> AbsInt(d) \div g]

Int2Num(i) == [k |-> "num", n |-> i, d |-> 1]

IsNaN(x) == x.k = "nan"

Add(x, y) == IF IsNaN(x) \/ IsNaN(y) THEN NaN ELSE R(x.n * y.d + y.n * x.d, x.d * y.d)
Neg(x) == IF IsNaN(x) THEN NaN ELSE [x EXCEPT !.n = -x.n]
Sub(x, y) == Add(x, Neg(y))
Mul(x, y) == IF IsNaN(x) \/ IsNaN(y) THEN NaN ELSE R(x.n * y.n, x.d * y.d)
\* x / y; 0 / 0 is NaN (a non-zero numerator over 0 does not occur in this code)
Div(x, y) ==
  IF IsNaN(x) \/ IsNaN(y) THEN NaN
  ELSE IF y.n = 0 THEN (IF x.n = 0 THEN NaN ELSE CHOOSE inf \in {} : TRUE)
  ELSE R(x.n * y.d, x.d * y.n)

\* comparisons: every comparison with NaN is false
Lt(x, y) == ~IsNaN(x) /\ ~IsNaN(y) /\ x.n * y.d < y.n * x.d
Le(x, y) == ~IsNaN(x) /\ ~IsNaN(y) /\ x.n * y.d <= y.n * x.d
Gt(x, y) == Lt(y, x)
Ge(x, y) == Le(y, x)
NumEq(x, y) == ~IsNaN(x) /\ ~IsNaN(y) /\ x.n * y.d = y.n * x.d

\* Math.min / Math.max / Math.abs
MathMin(x, y) == IF IsNaN(x) \/ IsNaN(y) THEN NaN ELSE IF Le(x, y) THEN x ELSE y
MathMax(x, y) == IF IsNaN(x) \/ IsNaN(y) THEN NaN ELSE IF Ge(x, y) THEN x ELSE y
MathAbs(x) == IF IsNaN(x) THEN NaN ELSE [x EXCEPT !.n = AbsInt(x.n)]

RECURSIVE ISqrt(_, _, _)
\* the largest r in lo..hi with r * r <= m, by bisection (lo * lo <= m)
ISqrt(m, lo, hi) ==
  IF lo >= hi THEN lo
  ELSE LET mid == (lo + hi + 1) \div 2
       IN  IF mid * mid <= m THEN ISqrt(m, mid, hi) ELSE ISqrt(m, lo, mid - 1)

\* Math.sqrt, rounded down to a multiple of 1/1000 (arguments below 2000)
MathSqrt(x) ==
  IF IsNaN(x) \/ x.n < 0 THEN NaN
  ELSE R(ISqrt((x.n * 1000000) \div x.d, 0, 46000), 1000)

Zero == Int2Num(0)
One == Int2Num(1)

InUnit(x) == Le(Zero, x) /\ Le(x, One)

RECURSIVE SumRange(_, _, _)
\* s[lo] + ... + s[hi], added up by halves
SumRange(s, lo, hi) ==
  IF lo > hi THEN Zero
  ELSE IF lo = hi THEN s[lo]
  ELSE LET mid == (lo + hi) \div 2
       IN  Add(SumRange(s, lo, mid), SumRange(s, mid + 1, hi))

\* values.reduce((sum, val) => sum + val, 0)
SumSeq(s) == SumRange(s, 1, Len(s))

\* F(v), with v worked out once however often F uses it
Apply(F(_), v) == CHOOSE r \in {F(x) : x \in {v}} : TRUE

\* values.filter(pred).length
RECURSIVE CountPositive(_)
CountPositive(s) ==
  IF s = <<>> THEN 0
  ELSE CountPositive(Tail(s)) + (IF Gt(Head(s), Zero) THEN 1 ELSE 0)

(***************************************************************************)
(* Model layer: predictor instances and the two model managers.            *)
(***************************************************************************)
ModelIds == {"linear", "neural", "ensemble", "random_forest"}

\* the instances held by mlModelsManager and enhancedMLModelsManager,
\* the sub-models of the two ensembles included
BasicInstances ==
  {"linear", "neural", "random_forest", "ensemble",
   "ensemble.linearModel", "ensemble.neuralModel", "ensemble.randomForestModel"}
EnhancedInstances == {"enhanced.neural", "enhanced.ensemble", "enhanced.ensemble.neuralModel"}
Instances == BasicInstances \cup EnhancedInstances

ClassOf(inst) ==
  CASE inst \in {"linear", "ensemble.linearModel"} -> "LinearRegressionModel"
    [] inst \in {"neural", "ensemble.neuralModel"} -> "NeuralNetworkModel"
    [] inst \in {"random_forest", "ensemble.randomForestModel"} -> "RandomForestModel"
    [] inst = "ensemble" -> "EnsembleModel"
    [] inst \in {"enhanced.neural", "enhanced.ensemble.neuralModel"} -> "EnhancedNeuralNetworkModel"
    [] inst = "enhanced.ensemble" -> "EnhancedEnsembleModel"

\* the sub-models an ensemble constructs
SubModels(inst) ==
  CASE inst = "ensemble" ->
         {"ensemble.linearModel", "ensemble.neuralModel", "ensemble.randomForestModel"}
    [] inst = "enhanced.ensemble" -> {"enhanced.ensemble.neuralModel"}
    [] OTHER -> {}

\* train() of the class awaits model.fit before it sets isTrained; the
\* random forest's train() has no await and runs to its end when called
TrainAwaits(inst) == ClassOf(inst) # "RandomForestModel"

\* MLModelsManager.models / EnhancedMLModelsManager.models: "" when the id is not registered
MLModelsManager_get(modelType) ==
  IF modelType \in {"linear", "neural", "random_forest", "ensemble"} THEN modelType ELSE ""

\* a lookup that answers an unregistered id with the neural model (the
\* defaulting the managers do not do)
EnhancedMLModelsManager_getOrDefault(modelType) ==
  IF modelType \in {"neural", "ensemble"} THEN "enhanced." \o modelType ELSE "enhanced.neural"

EnhancedMLModelsManager_get(modelType) ==
  IF modelType \in {"neural", "ensemble"} THEN "enhanced." \o modelType ELSE ""

ManagerGet(mgr, modelType) ==
  IF mgr = "basic" THEN MLModelsManager_get(modelType) ELSE EnhancedMLModelsManager_get(modelType)

\* the message getModel throws
NotFoundMessage(mgr, modelType) ==
  IF mgr = "basic" THEN "Model " \o modelType \o " not found"
  ELSE "Enhanced model " \o modelType \o " not found"

Undefined == [k |-> "undefined", n |-> 0, d |-> 1]

\* no clamp
Unclamped(x) == x

\* Math.max(0, Math.min(1, x))
Clamp01(x) == MathMax(Zero, MathMin(One, x))

\* features.filter(f => f > 0).length / total
PositiveShare(features, total) == R(CountPositive(features), total)

\* LinearRegressionModel.predict, given the outputs of the two networks
LinearRegressionModel_predict(features, out) ==
  [droughtRisk |-> Clamp01(out.drought),
   floodRisk |-> Clamp01(out.flood),
   confidence |-> MathMin(R(95, 100), Add(R(6, 10), Mul(PositiveShare(features, 5), R(3, 10)))),
   uncertainty |-> Undefined,
   featureImportance |-> <<>>]

\* NeuralNetworkModel.predict
NeuralNetworkModel_predict(features, out) ==
  [droughtRisk |-> Clamp01(out.drought),
   floodRisk |-> Clamp01(out.flood),
   confidence |-> MathMin(R(95, 100), Add(R(7, 10), Mul(PositiveShare(features, 5), R(25, 100)))),
   uncertainty |-> Undefined,
   featureImportance |-> <<>>]

RECURSIVE SumField(_, _)
SumField(s, f) == IF s = <<>> THEN Zero ELSE Add(SumField(SubSeq(s, 1, Len(s) - 1), f), s[Len(s)][f])

RECURSIVE SumSqDev(_, _, _)
\* predictions.reduce((sum, p) => sum + Math.pow(p[f] - avg, 2), 0)
SumSqDev(s, f, avg) ==
  IF s = <<>> THEN Zero
  ELSE LET dev == Sub(s[Len(s)][f], avg)
       IN  Add(SumSqDev(SubSeq(s, 1, Len(s) - 1), f, avg), Mul(dev, dev))

\* RandomForestModel.predict, given what predictTree returns for each tree
RandomForestModel_predict(features, predictions) ==
  LET cnt == Int2Num(Len(predictions))
      avgDroughtRisk == Div(SumField(predictions, "droughtRisk"), cnt)
      avgFloodRisk == Div(SumField(predictions, "floodRisk"), cnt)
      droughtVariance == Div(SumSqDev(predictions, "droughtRisk", avgDroughtRisk), cnt)
      floodVariance == Div(SumSqDev(predictions, "floodRisk", avgFloodRisk), cnt)
      confidence ==
        Add(R(65, 100), Mul(Sub(One, MathSqrt(Add(droughtVariance, floodVariance))), R(3, 10)))
  IN  [droughtRisk |-> Clamp01(avgDroughtRisk),
       floodRisk |-> Clamp01(avgFloodRisk),
       confidence |-> MathMin(R(95, 100), confidence),
       uncertainty |-> Undefined,
       featureImportance |-> <<>>]

\* a blend whose weights 0.2, 0.5, 0.2 do not sum to 1
EnsembleModel_predictUnderweighted(linearPred, neuralPred, rfPred) ==
  LET Blend(f) ==
        Add(Add(Mul(linearPred[f], R(2, 10)), Mul(neuralPred[f], R(5, 10))),
            Mul(rfPred[f], R(2, 10)))
  IN  [droughtRisk |-> Clamp01(Blend("droughtRisk")),
       floodRisk |-> Clamp01(Blend("floodRisk")),
       confidence |-> MathMin(R(95, 100), Blend("confidence")),
       uncertainty |-> Undefined,
       featureImportance |-> <<>>]

\* EnsembleModel.predict, given the three sub-models' predictions
EnsembleModel_predict(linearPred, neuralPred, rfPred) ==
  LET Blend(f) ==
        Add(Add(Mul(linearPred[f], R(2, 10)), Mul(neuralPred[f], R(5, 10))),
            Mul(rfPred[f], R(3, 10)))
  IN  [droughtRisk |-> Clamp01(Blend("droughtRisk")),
       floodRisk |-> Clamp01(Blend("floodRisk")),
       confidence |-> MathMin(R(95, 100), Blend("confidence")),
       uncertainty |-> Undefined,
       featureImportance |-> <<>>]

\* EnhancedNeuralNetworkModel.calculateFeatureImportance
calculateFeatureImportance(features) ==
  [i \in 1..Len(features) |-> Mul(MathAbs(features[i]), R(1, i))]

\* EnhancedNeuralNetworkModel.calculateUncertainty
calculateUncertainty(droughtRisk, floodRisk) ==
  MathMin(One, Mul(MathAbs(Sub(droughtRisk, floodRisk)), Int2Num(2)))

\* EnhancedNeuralNetworkModel.predict
EnhancedNeuralNetworkModel_predict(features, out) ==
  LET droughtRisk == Clamp01(out.drought)
      floodRisk == Clamp01(out.flood)
      confidence == Add(R(8, 10), Mul(PositiveShare(features, Len(features)), R(2, 10)))
  IN  [droughtRisk |-> droughtRisk,
       floodRisk |-> floodRisk,
       confidence |-> MathMin(R(95, 100), confidence),
       uncertainty |-> calculateUncertainty(droughtRisk, floodRisk),
       featureImportance |-> calculateFeatureImportance(features)]

\* EnhancedEnsembleModel.predict, given its neural sub-model's prediction
EnhancedEnsembleModel_predict(prediction) ==
  [prediction EXCEPT !.confidence = Mul(prediction.confidence, R(95, 100)),
                     !.uncertainty = Mul(prediction.uncertainty, R(11, 10))]

(***************************************************************************)
(* What the environment supplies to a prediction: the values the trained   *)
(* tf networks put out (any float in [0,1] after the sigmoid) and the leaf *)
(* values the trees of a trained forest answer with (means of labels).     *)
(***************************************************************************)
\* outputs at and just below the level thresholds
ThresholdOutputs ==
  {Zero, R(2499, 10000), R(1, 4), R(4999, 10000), R(1, 2), R(7499, 10000), R(3, 4),
   R(9, 10), One}

OutputPairs(outs) == {[drought |-> a, flood |-> b] : a \in outs, b \in outs}

\* leaves at the two ends of the label ranges of BaseMLModel.generateTrainingData
LeafValues ==
  {[droughtRisk |-> R(95, 100), floodRisk |-> R(5, 100)],
   [droughtRisk |-> R(1, 10), floodRisk |-> R(8, 10)]}

\* network outputs the sub-models of an ensemble can agree on, and two others
BlendOutputs == {Zero, R(1, 10), R(1, 2), R(95, 100), One}

\* leaves that make the forest agree with the networks, and the two of LeafValues
BlendLeaves ==
  LeafValues \cup {[droughtRisk |-> R(1, 2), floodRisk |-> R(1, 2)],
                   [droughtRisk |-> R(95, 100), floodRisk |-> R(1, 10)]}

\* this.trees.map(tree => this.predictTree(tree, features))
TreePredictions(leaves) == [1..NumTrees -> leaves]

\* the predictions instance inst can answer with, once trained
Predictions(inst, features, outs, leaves) ==
  CASE ClassOf(inst) = "LinearRegressionModel" ->
         {LinearRegressionModel_predict(features, o) : o \in OutputPairs(outs)}
    [] ClassOf(inst) = "NeuralNetworkModel" ->
         {NeuralNetworkModel_predict(features, o) : o \in OutputPairs(outs)}
    [] ClassOf(inst) = "RandomForestModel" ->
         {RandomForestModel_predict(features, t) : t \in TreePredictions(leaves)}
    [] ClassOf(inst) = "EnsembleModel" ->
         {EnsembleModel_predict(linearPred, neuralPred, rfPred) :
            linearPred \in {LinearRegressionModel_predict(features, o) : o \in OutputPairs(outs)},
            neuralPred \in {NeuralNetworkModel_predict(features, o) : o \in OutputPairs(outs)},
            rfPred \in {RandomForestModel_predict(features, t) : t \in TreePredictions(leaves)}}
    [] ClassOf(inst) = "EnhancedNeuralNetworkModel" ->
         {EnhancedNeuralNetworkModel_predict(features, o) : o \in OutputPairs(outs)}
    [] ClassOf(inst) = "EnhancedEnsembleModel" ->
         {EnhancedEnsembleModel_predict(prediction) :
            prediction \in {EnhancedNeuralNetworkModel_predict(features, o) :
                              o \in OutputPairs(outs)}}

(***************************************************************************)
(* Calls in flight.  A call is one invocation of an async entry point; pc  *)
(* is the await it is suspended at.                                        *)
(***************************************************************************)
CallIds == 1..MaxCalls

IdleCall ==
  [op |-> "none", pc |-> "idle", mgr |-> "", id |-> "", inst |-> "",
   features |-> <<>>, pending |-> {},
   model |-> "", toggles |-> <<>>, latitude |-> Zero, longitude |-> Zero,
   fetch |-> <<>>, raw |-> <<>>, processed |-> <<>>]

NoReturn == [kind |-> "none"]

\* a new invocation takes the first slot that holds no call
FreeSlot(c) ==
  /\ calls[c].op = "none"
  /\ \A d \in CallIds : d < c => calls[d].op # "none"

\* an archetype's share of a generated training set: how many examples,
\* and the interval the labels are drawn from as Math.random() ranges over [0, 1)
Archetype(region, count, droughtLo, droughtHi, floodLo, floodHi) ==
  [region |-> region, count |-> count,
   droughtRisk |-> [lo |-> droughtLo, hi |-> droughtHi],
   floodRisk |-> [lo |-> floodLo, hi |-> floodHi]]

\* BaseMLModel.generateTrainingData: five loops of 100 examples, the labels
\* base + Math.random() * span
generateTrainingData ==
  <<Archetype("desert", 100, R(8, 10), R(95, 100), R(5, 100), R(15, 100)),
    Archetype("coastal", 100, R(2, 10), R(6, 10), R(3, 10), R(7, 10)),
    Archetype("tropical", 100, R(1, 10), R(4, 10), R(4, 10), R(8, 10)),
    Archetype("polar", 100, R(1, 10), R(3, 10), R(2, 10), R(5, 10)),
    Archetype("riverBasin", 100, R(1, 10), R(4, 10), R(4, 10), R(8, 10))>>

\* EnhancedTrainingDataGenerator.generateRealisticTrainingData: 200 examples
\* for each pattern, the labels max(0, min(1, base + (Math.random() - 0.5) *
\* variation + adjustment)) with an adjustment that is never negative (the
\* generated series are kept at or above 0) and can exceed 1
generateRealisticTrainingData ==
  LET Pattern(region, droughtBase, droughtVariation, floodBase, floodVariation) ==
        Archetype(region, 200,
                  Clamp01(Sub(droughtBase, Mul(R(1, 2), droughtVariation))), Clamp01(Int2Num(2)),
                  Clamp01(Sub(floodBase, Mul(R(1, 2), floodVariation))), Clamp01(Int2Num(2)))
  IN  <<Pattern("desert", R(75, 100), R(2, 10), R(5, 100), R(1, 10)),
        Pattern("coastal", R(3, 10), R(3, 10), R(6, 10), R(3, 10)),
        Pattern("tropical", R(2, 10), R(2, 10), R(7, 10), R(2, 10)),
        Pattern("polar", R(1, 10), R(2, 10), R(4, 10), R(3, 10)),
        Pattern("riverBasin", R(15, 100), R(25, 100), R(65, 100), R(25, 100))>>

\* the training set train() of inst receives: the basic classes generate
\* their own and the basic ensemble hands its own to its sub-models; the
\* enhanced classes take the generator's
TrainingDataOf(inst) ==
  IF inst \in BasicInstances THEN generateTrainingData ELSE generateRealisticTrainingData

\* predict() that starts training whatever the trained flag says
EnterPredictUnguarded(inst, trained, runs) ==
  LET started == {inst} \cup SubModels(inst)
  IN  [isTrained |-> trained,
       trainRuns |-> [i \in Instances |-> IF i \in started THEN runs[i] + 1 ELSE runs[i]],
       pending |-> {i \in started : SubModels(i) = {}}]

\* predict() entered on inst: the trained-flag guard and, when it lets
\* through, train() up to its first await.  pending: the instances whose
\* model.fit is awaited.
EnterPredict(inst, trained, runs) ==
  IF trained[inst] THEN [isTrained |-> trained, trainRuns |-> runs, pending |-> {}]
  ELSE LET started == {inst} \cup SubModels(inst)
           finished == {i \in started : ~TrainAwaits(i)}
       IN  [isTrained |-> [i \in Instances |-> trained[i] \/ i \in finished],
            trainRuns |-> [i \in Instances |-> IF i \in started THEN runs[i] + 1 ELSE runs[i]],
            pending |-> {i \in started : TrainAwaits(i) /\ SubModels(i) = {}}]

\* manager.predict(modelType, features), called outside any pipeline
ManagerPredict(c, mgr, modelType, features) ==
  /\ FreeSlot(c)
  /\ LET inst == ManagerGet(mgr, modelType)
     IN  IF inst = ""
         THEN /\ returned' = [kind |-> "error", mgr |-> mgr, id |-> modelType,
                              error |-> NotFoundMessage(mgr, modelType)]
              /\ UNCHANGED <<isTrained, trainRuns, calls>>
         ELSE LET e == EnterPredict(inst, isTrained, trainRuns)
              IN  /\ isTrained' = e.isTrained
                  /\ trainRuns' = e.trainRuns
                  /\ calls' = [calls EXCEPT ![c] =
                       [IdleCall EXCEPT !.op = "predict", !.mgr = mgr, !.id = modelType,
                                        !.inst = inst, !.features = features,
                                        !.pending = e.pending,
                                        !.pc = IF e.pending = {} THEN "infer" ELSE "train"]]
                  /\ UNCHANGED returned
  /\ UNCHANGED <<state, chartData, created>>

\* model.fit of instance i, awaited by call c, resolves: train() of i goes
\* on to set its flag; when it was the last one awaited, the train() of the
\* called instance sets its flag too and predict() goes on
FitDone(c, i) ==
  /\ calls[c].pc = "train"
  /\ i \in calls[c].pending
  /\ LET rest == calls[c].pending \ {i}
         orphan == calls[c].op = "orphan"
     IN  /\ isTrained' = [isTrained EXCEPT ![i] = TRUE,
                                           ![calls[c].inst] = (rest = {} /\ ~orphan) \/ @]
         /\ calls' = IF rest = {} /\ orphan
                     THEN [calls EXCEPT ![c] = IdleCall]
                     ELSE [calls EXCEPT ![c].pending = rest,
                                        ![c].pc = IF rest = {} THEN "infer" ELSE "train"]
  /\ UNCHANGED <<trainRuns, returned, state, chartData, created>>

(***************************************************************************)
(* Raw samples.  A sample is [timestamp, latitude, longitude, value]:      *)
(* value is the signal's own field (soilMoisture, temperature, fireIndex,  *)
(* seaLevel, meltingRate).  A timestamp is [kind, year]: "missing" (empty  *)
(* or absent), "unparsable" (new Date gives Invalid Date) or "iso".        *)
(***************************************************************************)
Signals == <<"soilMoisture", "temperature", "fireIndex", "seaLevel", "glacierMelting">>

\* now.getFullYear()
CurrentYear == 2025

\* !item.latitude, !item.longitude: 0 and NaN are falsy
Falsy(x) == IsNaN(x) \/ x.n = 0

\* data.map(item => item.<signal field>)
MapValue(data) == [j \in 1..Len(data) |-> data[j].value]

(***************************************************************************)
(* DataPreprocessor (basic path).                                          *)
(***************************************************************************)
\* the filter predicate of DataPreprocessor.cleanData
cleanDataKeeps(item) ==
  /\ ~(item.timestamp.kind = "missing" \/ Falsy(item.latitude) \/ Falsy(item.longitude))
  /\ ~(Lt(item.latitude, Int2Num(-90)) \/ Gt(item.latitude, Int2Num(90)))
  /\ ~(Lt(item.longitude, Int2Num(-180)) \/ Gt(item.longitude, Int2Num(180)))
  /\ item.timestamp.kind # "unparsable"

cleanData(data) == SelectSeq(data, cleanDataKeeps)

\* a sort that leaves the order as it was
Unsorted(s) == s

\* [...values].sort((a, b) => a - b): the element at position i moves to
\* the position given by the number of elements that sort before it
SortAscending(s) ==
  LET n == Len(s)
      Before(j, i) == Lt(s[j], s[i]) \/ (NumEq(s[j], s[i]) /\ j < i)
      Place(position) == [k \in 1..n |-> s[CHOOSE i \in 1..n : position[i] = k]]
  IN  Apply(Place, [i \in 1..n |-> Cardinality({j \in 1..n : Before(j, i)}) + 1])

\* the values calculateRobustAverage keeps: those within 1.5 IQR of the
\* quartiles sorted[floor(n * 0.25)] and sorted[floor(n * 0.75)]
filteredValues(values) ==
  LET Filter(sorted) ==
        LET q1 == sorted[(Len(sorted) \div 4) + 1]
            q3 == sorted[((Len(sorted) * 3) \div 4) + 1]
            iqr == Sub(q3, q1)
            lowerBound == Sub(q1, Mul(R(3, 2), iqr))
            upperBound == Add(q3, Mul(R(3, 2), iqr))
            InBounds(value) == Ge(value, lowerBound) /\ Le(value, upperBound)
        IN  SelectSeq(values, InBounds)
  IN  Apply(Filter, SortAscending(values))

\* the mean of all values, outliers included
calculatePlainAverage(values) ==
  IF Len(values) = 0 THEN Zero ELSE Div(SumSeq(values), Int2Num(Len(values)))

\* DataPreprocessor.calculateRobustAverage
calculateRobustAverage(values) ==
  IF Len(values) = 0 THEN Zero
  ELSE LET Mean(filtered) ==
             IF Len(filtered) > 0
             THEN Div(SumSeq(filtered), Int2Num(Len(filtered)))
             ELSE Div(SumSeq(values), Int2Num(Len(values)))
       IN  Apply(Mean, filteredValues(values))

\* Math.max(...dataCounts), Math.min(...dataCounts)
MaxInt(s) == CHOOSE m \in {s[i] : i \in 1..Len(s)} : \A i \in 1..Len(s) : s[i] <= m

MinInt(s) == CHOOSE m \in {s[i] : i \in 1..Len(s)} : \A i \in 1..Len(s) : s[i] >= m

RECURSIVE SumIntRange(_, _, _)
SumIntRange(s, lo, hi) ==
  IF lo > hi THEN 0
  ELSE IF lo = hi THEN s[lo]
  ELSE LET mid == (lo + hi) \div 2
       IN  SumIntRange(s, lo, mid) + SumIntRange(s, mid + 1, hi)

SumInt(s) == SumIntRange(s, 1, Len(s))

\* DataPreprocessor.calculateDataQuality
calculateDataQuality(dataCounts) ==
  LET maxCount == MaxInt(dataCounts)
      minCount == MinInt(dataCounts)
      consistency == IF maxCount > 0 THEN R(minCount, maxCount) ELSE Zero
      totalPoints == SumInt(dataCounts)
      dataRichness == MathMin(One, R(totalPoints, 50))
  IN  Add(Mul(consistency, R(6, 10)), Mul(dataRichness, R(4, 10)))

\* DataPreprocessor.calculateDataCompleteness
calculateDataCompleteness(dataCounts) ==
  LET completenessScores == [i \in 1..Len(dataCounts) |-> MathMin(One, R(dataCounts[i], 10))]
  IN  Div(SumSeq(completenessScores), Int2Num(Len(completenessScores)))

\* DataPreprocessor.aggregateData; raw[i] is the sample array of Signals[i]
aggregateData(raw) ==
  LET Aggregate(clean) ==
        LET avg == [i \in 1..5 |-> calculateRobustAverage(MapValue(clean[i]))]
            counts == [i \in 1..5 |-> Len(clean[i])]
        IN  [soilMoisture |-> avg[1], temperature |-> avg[2], fireIndex |-> avg[3],
             seaLevel |-> avg[4], glacierMelting |-> avg[5],
             quality |-> calculateDataQuality(counts),
             completeness |-> calculateDataCompleteness(counts)]
  IN  Apply(Aggregate, [i \in 1..5 |-> cleanData(raw[i])])

\* the statistics entry normalizeFeatures builds for one feature
FeatureStatistics(value) ==
  [mean |-> value, median |-> value, std |-> Zero, min |-> value, max |-> value, count |-> 1]

\* (value - range.min) / (range.max - range.min), clamped to [0, 1]
NormalizeInto(value, min, max) ==
  Clamp01(Div(Sub(value, Int2Num(min)), Sub(Int2Num(max), Int2Num(min))))

\* DataPreprocessor.normalizeFeatures
normalizeFeatures(features) ==
  [features |->
     <<NormalizeInto(features.soilMoisture, 0, 100),
       NormalizeInto(features.temperature, -50, 60),
       NormalizeInto(features.fireIndex, 0, 100),
       NormalizeInto(features.seaLevel, 0, 1),
       NormalizeInto(features.glacierMelting, 0, 20)>>,
   statistics |->
     <<FeatureStatistics(features.soilMoisture), FeatureStatistics(features.temperature),
       FeatureStatistics(features.fireIndex), FeatureStatistics(features.seaLevel),
       FeatureStatistics(features.glacierMelting)>>,
   quality |-> features.quality,
   completeness |-> features.completeness,
   dataRichness |-> Undefined]

(***************************************************************************)
(* Geographic regions (the same predicates in both preprocessors).         *)
(***************************************************************************)
Within(x, lo, hi) == Ge(x, lo) /\ Le(x, hi)

InBox(latitude, longitude, latLo, latHi, lonLo, lonHi) ==
  /\ Within(latitude, Int2Num(latLo), Int2Num(latHi))
  /\ Within(longitude, Int2Num(lonLo), Int2Num(lonHi))

isDesertRegion(latitude, longitude) ==
  \/ InBox(latitude, longitude, 15, 30, -15, 40)
  \/ InBox(latitude, longitude, 40, 50, 100, 120)
  \/ InBox(latitude, longitude, -30, -20, -80, -70)
  \/ InBox(latitude, longitude, -30, -20, 15, 25)
  \/ InBox(latitude, longitude, -30, -20, 120, 140)

isPolarRegion(latitude, longitude) ==
  Gt(latitude, R(665, 10)) \/ Lt(latitude, R(-665, 10))

isCoastalRegion(latitude, longitude) ==
  \/ InBox(latitude, longitude, 30, 60, -130, -120)
  \/ InBox(latitude, longitude, 25, 50, -80, -70)
  \/ InBox(latitude, longitude, 35, 70, -10, 20)
  \/ InBox(latitude, longitude, 20, 50, 120, 140)
  \/ InBox(latitude, longitude, -40, -10, 110, 155)

isTropicalRegion(latitude, longitude) ==
  Ge(latitude, R(-235, 10)) /\ Le(latitude, R(235, 10))

isMountainousRegion(latitude, longitude) ==
  \/ InBox(latitude, longitude, 25, 35, 70, 100)
  \/ InBox(latitude, longitude, -20, 10, -80, -70)
  \/ InBox(latitude, longitude, 35, 60, -120, -105)
  \/ InBox(latitude, longitude, 43, 48, 5, 15)

\* the basic adjustment without any regional clamp
adjustForGeographicContextSkipped(features, latitude, longitude) == features

\* DataPreprocessor.adjustForGeographicContext: every clamp reads the
\* aggregated features and writes the copy
adjustForGeographicContext(features, latitude, longitude) ==
  LET desert ==
        IF isDesertRegion(latitude, longitude)
        THEN [features EXCEPT !.soilMoisture = MathMin(features.soilMoisture, Int2Num(15)),
                              !.temperature = MathMax(features.temperature, Int2Num(25)),
                              !.fireIndex = MathMax(features.fireIndex, Int2Num(60)),
                              !.seaLevel = Zero,
                              !.glacierMelting = Zero]
        ELSE features
      polar ==
        IF isPolarRegion(latitude, longitude)
        THEN [desert EXCEPT !.soilMoisture = MathMin(features.soilMoisture, Int2Num(40)),
                            !.temperature = MathMin(features.temperature, Int2Num(15)),
                            !.fireIndex = MathMin(features.fireIndex, Int2Num(30)),
                            !.seaLevel = Zero,
                            !.glacierMelting = MathMax(features.glacierMelting, Int2Num(5))]
        ELSE desert
  IN  IF isCoastalRegion(latitude, longitude)
      THEN [polar EXCEPT !.seaLevel = MathMax(features.seaLevel, R(5, 100))]
      ELSE polar

\* DataPreprocessor.processDataForML
processDataForML(raw, latitude, longitude) ==
  LET Adjust(aggregatedFeatures) ==
        adjustForGeographicContext(aggregatedFeatures, latitude, longitude)
  IN  Apply(normalizeFeatures, Apply(Adjust, aggregateData(raw)))

(***************************************************************************)
(* FeatureEngineer (enhancedMLModels.ts).                                  *)
(***************************************************************************)
calculateMean(values) ==
  IF Len(values) > 0 THEN Div(SumSeq(values), Int2Num(Len(values))) ELSE Zero

\* least-squares slope of values against the indices 0 .. n-1
calculateTrend(values) ==
  IF Len(values) < 2 THEN Zero
  ELSE LET n == Len(values)
           sumX == SumInt([i \in 1..n |-> i - 1])
           sumY == SumSeq(values)
           sumXY == SumSeq([i \in 1..n |-> Mul(Int2Num(i - 1), values[i])])
           sumXX == SumInt([i \in 1..n |-> (i - 1) * (i - 1)])
       IN  Div(Sub(Mul(Int2Num(n), sumXY), Mul(Int2Num(sumX), sumY)),
               Int2Num(n * sumXX - sumX * sumX))

calculateVolatility(values) ==
  IF Len(values) < 2 THEN Zero
  ELSE LET Variance(mean) ==
             Div(SumSeq([i \in 1..Len(values) |->
                           Mul(Sub(values[i], mean), Sub(values[i], mean))]),
                 Int2Num(Len(values)))
       IN  MathSqrt(Apply(Variance, calculateMean(values)))

RECURSIVE MaxNum(_)
\* Math.max(...xs), xs not empty
MaxNum(s) == IF Len(s) = 1 THEN s[1] ELSE MathMax(s[1], MaxNum(Tail(s)))

RECURSIVE MinNum(_)
MinNum(s) == IF Len(s) = 1 THEN s[1] ELSE MathMin(s[1], MinNum(Tail(s)))

\* values.filter((_, index) => index % 12 === i), from the 1-based position p on
EveryTwelfth(values, p) ==
  [j \in 1..((Len(values) - p) \div 12 + 1) |-> values[p + 12 * (j - 1)]]

calculateSeasonality(values) ==
  IF Len(values) < 12 THEN Zero
  ELSE LET monthlyAverages == [i \in 1..12 |-> calculateMean(EveryTwelfth(values, i))]
       IN  Sub(MaxNum(monthlyAverages), MinNum(monthlyAverages))

calculateExtremeValues(values) ==
  IF Len(values) = 0 THEN Zero
  ELSE LET Share(threshold) ==
             LET Above(val) == Gt(val, threshold)
             IN  R(Len(SelectSeq(values, Above)), Len(values))
       IN  Apply(Share, Add(calculateMean(values), Mul(Int2Num(2), calculateVolatility(values))))

\* FeatureEngineer.createTemporalFeatures: the 25 features in slot order
createTemporalFeatures(soilMoisture, temperature, fireIndex, seaLevel, glacierMelting) ==
  <<calculateMean(soilMoisture), calculateMean(temperature), calculateMean(fireIndex),
    calculateMean(seaLevel), calculateMean(glacierMelting)>>
  \o <<calculateTrend(soilMoisture), calculateTrend(temperature), calculateTrend(fireIndex),
       calculateTrend(seaLevel), calculateTrend(glacierMelting)>>
  \o <<calculateVolatility(soilMoisture), calculateVolatility(temperature),
       calculateVolatility(fireIndex), calculateVolatility(seaLevel),
       calculateVolatility(glacierMelting)>>
  \o <<Mul(calculateMean(soilMoisture), calculateMean(temperature)),
       Mul(calculateMean(temperature), calculateMean(fireIndex)),
       Mul(calculateMean(soilMoisture), calculateMean(seaLevel)),
       Mul(calculateMean(glacierMelting), calculateMean(seaLevel))>>
  \o <<calculateSeasonality(soilMoisture), calculateSeasonality(temperature),
       calculateSeasonality(fireIndex)>>
  \o <<calculateExtremeValues(soilMoisture), calculateExtremeValues(temperature),
       calculateExtremeValues(fireIndex)>>

(***************************************************************************)
(* EnhancedDataPreprocessor (enhanced path).                               *)
(***************************************************************************)
\* the filter predicate of EnhancedDataPreprocessor.cleanAndValidateData
cleanAndValidateKeeps(item) ==
  /\ ~(item.timestamp.kind = "missing" \/ Falsy(item.latitude) \/ Falsy(item.longitude))
  /\ ~(Lt(item.latitude, Int2Num(-90)) \/ Gt(item.latitude, Int2Num(90)))
  /\ ~(Lt(item.longitude, Int2Num(-180)) \/ Gt(item.longitude, Int2Num(180)))
  /\ item.timestamp.kind # "unparsable"
  /\ ~(AbsInt(CurrentYear - item.timestamp.year) > 10)

\* EnhancedDataPreprocessor.cleanAndValidateData
cleanAndValidateData(data) ==
  LET originalCount == Len(data)
      kept == SelectSeq(data, cleanAndValidateKeeps)
  IN  [cleanData |-> kept,
       quality |-> Div(Int2Num(Len(kept)), Int2Num(originalCount)),
       completeness |-> MathMin(One, R(Len(kept), 50))]

\* EnhancedDataPreprocessor.aggregateDataWithTimeSeries
aggregateDataWithTimeSeries(raw) ==
  LET Aggregate(cleaned) ==
        LET ts == [i \in 1..5 |-> MapValue(cleaned[i].cleanData)]
            qualities == [i \in 1..5 |-> cleaned[i].quality]
            completenesses == [i \in 1..5 |-> cleaned[i].completeness]
            Grouped(allFeatures) ==
              [basicFeatures |-> SubSeq(allFeatures, 1, 5),
               temporalFeatures |-> SubSeq(allFeatures, 6, 10),
               volatilityFeatures |-> SubSeq(allFeatures, 11, 15),
               interactionFeatures |-> SubSeq(allFeatures, 16, 19),
               seasonalFeatures |-> SubSeq(allFeatures, 20, 22),
               extremeFeatures |-> SubSeq(allFeatures, 23, 25),
               allFeatures |-> allFeatures,
               quality |-> Div(SumSeq(qualities), Int2Num(Len(qualities))),
               completeness |-> Div(SumSeq(completenesses), Int2Num(Len(completenesses))),
               dataRichness |->
                 MathMin(One, R(Len(ts[1]) + Len(ts[2]) + Len(ts[3]) + Len(ts[4]) + Len(ts[5]),
                                250))]
        IN  Apply(Grouped, createTemporalFeatures(ts[1], ts[2], ts[3], ts[4], ts[5]))
  IN  Apply(Aggregate, [i \in 1..5 |-> cleanAndValidateData(raw[i])])

\* normalizationRanges of normalizeFeaturesEnhanced, by feature group
EnhancedRanges ==
  <<<<[min |-> Zero, max |-> Int2Num(100)], [min |-> Int2Num(-50), max |-> Int2Num(60)],
      [min |-> Zero, max |-> Int2Num(100)], [min |-> Zero, max |-> One],
      [min |-> Zero, max |-> Int2Num(20)]>>,
    <<[min |-> Int2Num(-10), max |-> Int2Num(10)], [min |-> Int2Num(-5), max |-> Int2Num(5)],
      [min |-> Int2Num(-20), max |-> Int2Num(20)], [min |-> R(-1, 10), max |-> R(1, 10)],
      [min |-> Int2Num(-2), max |-> Int2Num(2)]>>,
    <<[min |-> Zero, max |-> Int2Num(30)], [min |-> Zero, max |-> Int2Num(15)],
      [min |-> Zero, max |-> Int2Num(25)], [min |-> Zero, max |-> R(2, 10)],
      [min |-> Zero, max |-> Int2Num(5)]>>,
    <<[min |-> Zero, max |-> Int2Num(6000)], [min |-> Zero, max |-> Int2Num(6000)],
      [min |-> Zero, max |-> Int2Num(100)], [min |-> Zero, max |-> Int2Num(20)]>>,
    <<[min |-> Zero, max |-> Int2Num(50)], [min |-> Zero, max |-> Int2Num(30)],
      [min |-> Zero, max |-> Int2Num(40)]>>,
    <<[min |-> Zero, max |-> One], [min |-> Zero, max |-> One], [min |-> Zero, max |-> One]>>>>

EnhancedFeatureNames ==
  <<<<"soilMoisture", "temperature", "fireIndex", "seaLevel", "glacierMelting">>,
    <<"soilMoistureTrend", "temperatureTrend", "fireIndexTrend", "seaLevelTrend",
      "glacierMeltingTrend">>,
    <<"soilMoistureVolatility", "temperatureVolatility", "fireIndexVolatility",
      "seaLevelVolatility", "glacierMeltingVolatility">>,
    <<"moistureTempInteraction", "tempFireInteraction", "moistureSeaInteraction",
      "glacierSeaInteraction">>,
    <<"soilMoistureSeasonality", "temperatureSeasonality", "fireIndexSeasonality">>,
    <<"soilMoistureExtreme", "temperatureExtreme", "fireIndexExtreme">>>>

RECURSIVE Flatten(_)
Flatten(groups) == IF groups = <<>> THEN <<>> ELSE Head(groups) \o Flatten(Tail(groups))

\* the statistics entry normalizeFeaturesEnhanced builds; groupIndex is 0-based
EnhancedFeatureStatistics(feature, groupIndex) ==
  [mean |-> feature, median |-> feature, std |-> Zero, min |-> feature, max |-> feature,
   count |-> 1,
   trend |-> IF groupIndex = 1 THEN feature ELSE Zero,
   volatility |-> IF groupIndex = 2 THEN feature ELSE Zero,
   seasonality |-> IF groupIndex = 4 THEN feature ELSE Zero,
   extremeValues |-> IF groupIndex = 5 THEN feature ELSE Zero]

\* EnhancedDataPreprocessor.normalizeFeaturesEnhanced
normalizeFeaturesEnhanced(features) ==
  LET featureGroups ==
        <<features.basicFeatures, features.temporalFeatures, features.volatilityFeatures,
          features.interactionFeatures, features.seasonalFeatures, features.extremeFeatures>>
      Normalized(g) ==
        [j \in 1..Len(featureGroups[g]) |->
           Clamp01(Div(Sub(featureGroups[g][j], EnhancedRanges[g][j].min),
                       Sub(EnhancedRanges[g][j].max, EnhancedRanges[g][j].min)))]
      Stats(g) ==
        [j \in 1..Len(featureGroups[g]) |-> EnhancedFeatureStatistics(featureGroups[g][j], g - 1)]
  IN  [features |-> Flatten([g \in 1..6 |-> Normalized(g)]),
       statistics |-> Flatten([g \in 1..6 |-> Stats(g)]),
       quality |-> features.quality,
       completeness |-> features.completeness,
       dataRichness |-> features.dataRichness,
       featureNames |-> Flatten([g \in 1..6 |-> SubSeq(EnhancedFeatureNames[g], 1,
                                                        Len(featureGroups[g]))])]

\* an adjustment that also marks the adjusted features as of full quality
adjustForGeographicContextEnhancedRescored(features, latitude, longitude) ==
  [features EXCEPT !.quality = One]

\* EnhancedDataPreprocessor.adjustForGeographicContextEnhanced: the copy
\* shares the basicFeatures array with its argument, so every clamp reads
\* what the clamps before it wrote
adjustForGeographicContextEnhanced(features, latitude, longitude) ==
  LET Desert(b) ==
        IF isDesertRegion(latitude, longitude)
        THEN <<MathMin(b[1], R(15, 100)), MathMax(b[2], R(25, 100)),
               MathMax(b[3], R(6, 10)), Zero, Zero>>
        ELSE b
      Polar(b) ==
        IF isPolarRegion(latitude, longitude)
        THEN <<MathMin(b[1], R(4, 10)), MathMin(b[2], R(15, 100)),
               MathMin(b[3], R(3, 10)), Zero, MathMax(b[5], R(5, 100))>>
        ELSE b
      Coastal(b) ==
        IF isCoastalRegion(latitude, longitude)
        THEN [b EXCEPT ![4] = MathMax(b[4], R(5, 100))]
        ELSE b
      Tropical(b) ==
        IF isTropicalRegion(latitude, longitude)
        THEN [b EXCEPT ![1] = MathMax(b[1], R(6, 10)),
                       ![2] = MathMax(b[2], R(2, 10)),
                       ![3] = MathMin(b[3], R(6, 10))]
        ELSE b
      Mountainous(b) ==
        IF isMountainousRegion(latitude, longitude)
        THEN [b EXCEPT ![2] = MathMin(b[2], R(3, 10)),
                       ![5] = MathMax(b[5], R(2, 100))]
        ELSE b
      Adjusted(b) ==
        [features EXCEPT
           !.basicFeatures = b,
           !.allFeatures = b \o features.temporalFeatures \o features.volatilityFeatures
                           \o features.interactionFeatures \o features.seasonalFeatures
                           \o features.extremeFeatures]
  IN  Apply(Adjusted,
        Apply(Mountainous,
          Apply(Tropical,
            Apply(Coastal, Apply(Polar, Apply(Desert, features.basicFeatures))))))

\* EnhancedDataPreprocessor.processDataForEnhancedML
processDataForEnhancedML(raw, latitude, longitude) ==
  LET Adjust(aggregatedFeatures) ==
        adjustForGeographicContextEnhanced(aggregatedFeatures, latitude, longitude)
  IN  Apply(normalizeFeaturesEnhanced, Apply(Adjust, aggregateDataWithTimeSeries(raw)))

(***************************************************************************)
(* apiService.runMLPrediction.                                             *)
(***************************************************************************)
\* the keys of DataFeatures, in the order of the arrays runMLPrediction takes
FeatureKeys ==
  <<"soilMoisture", "surfaceTemperature", "fireIndex", "seaLevel", "glacierMelting">>

FeatureKeySet == {FeatureKeys[i] : i \in 1..5}

KeyIndex(key) == CHOOSE i \in 1..5 : FeatureKeys[i] = key

\* a routing that sends only 'neural' down the enhanced path
useEnhancedModelsNeuralOnly(model) == model = "neural"

\* ['neural', 'ensemble'].includes(model)
useEnhancedModels(model) == model \in {"neural", "ensemble"}

\* a bucketing whose boundaries belong to the lower bucket
getRiskLevelInclusive(probability) ==
  IF Le(probability, R(25, 100)) THEN "low"
  ELSE IF Le(probability, R(5, 10)) THEN "medium"
  ELSE IF Le(probability, R(75, 100)) THEN "high"
  ELSE "extreme"

\* getRiskLevel (the same function in both branches)
getRiskLevel(probability) ==
  IF Lt(probability, R(25, 100)) THEN "low"
  ELSE IF Lt(probability, R(5, 10)) THEN "medium"
  ELSE IF Lt(probability, R(75, 100)) THEN "high"
  ELSE "extreme"

\* x || 0
OrZero(x) == IF Falsy(x) THEN Zero ELSE x

\* dataPoints: a key is present when its toggle is on and its raw array is not empty
DataPoints(features, raw, statistics) ==
  [key \in {k \in FeatureKeySet : features[k] /\ Len(raw[KeyIndex(k)]) > 0} |->
     statistics[KeyIndex(key)].mean]

\* the confidence runMLPrediction reports for both risks
ScaledConfidence(model, prediction, processed) ==
  IF useEnhancedModels(model)
  THEN Mul(Mul(prediction.confidence, processed.quality), processed.dataRichness)
  ELSE Mul(prediction.confidence, processed.quality)

\* the PredictionResult runMLPrediction returns; id stands for pred_<Date.now()>
\* (timestamp and location.name, which are formatted from the same values,
\* are left out)
PredictionResult(call, prediction, id) ==
  LET confidence == ScaledConfidence(call.model, prediction, call.processed)
  IN  [id |-> id,
       location |-> [latitude |-> OrZero(call.latitude), longitude |-> OrZero(call.longitude)],
       droughtRisk |-> [level |-> getRiskLevel(prediction.droughtRisk),
                        probability |-> prediction.droughtRisk,
                        confidence |-> confidence],
       floodRisk |-> [level |-> getRiskLevel(prediction.floodRisk),
                      probability |-> prediction.floodRisk,
                      confidence |-> confidence],
       model |-> call.model,
       features |-> call.toggles,
       dataPoints |-> DataPoints(call.toggles, call.raw, call.processed.statistics)]

\* runMLPrediction up to its await of manager.predict: the routing, the
\* preprocessing and predict() up to its first await.  thrown is the message
\* of the error getModel throws, "" when there is none.
RunMLPredictionEnter(call, raw, trained, runs) ==
  LET mgr == IF useEnhancedModels(call.model) THEN "enhanced" ELSE "basic"
      inst == ManagerGet(mgr, call.model)
      e == IF inst = "" THEN [isTrained |-> trained, trainRuns |-> runs, pending |-> {}]
           ELSE EnterPredict(inst, trained, runs)
      Awaiting(processed) ==
        [thrown |-> IF inst = "" THEN NotFoundMessage(mgr, call.model) ELSE "",
         isTrained |-> e.isTrained,
         trainRuns |-> e.trainRuns,
         call |-> [call EXCEPT !.mgr = mgr, !.id = call.model, !.inst = inst,
                               !.raw = raw, !.processed = processed,
                               !.features = processed.features,
                               !.pending = e.pending,
                               !.pc = IF e.pending = {} THEN "infer" ELSE "train"]]
  IN  Apply(Awaiting, IF useEnhancedModels(call.model)
                      THEN processDataForEnhancedML(raw, call.latitude, call.longitude)
                      ELSE processDataForML(raw, call.latitude, call.longitude))

\* the calls in flight that end by creating a PredictionResult
InFlight == {c \in CallIds : calls[c].op \in {"runMLPrediction", "runPrediction"}}

\* runMLPrediction(data), called outside the dashboard
RunMLPrediction(c, raw, model, features, latitude, longitude) ==
  /\ FreeSlot(c)
  /\ created + Cardinality(InFlight) < MaxPredictions
  /\ LET call == [IdleCall EXCEPT !.op = "runMLPrediction", !.model = model,
                                  !.toggles = features, !.latitude = latitude,
                                  !.longitude = longitude]
         Settle(e) ==
           IF e.thrown # ""
           THEN /\ returned' = [kind |-> "error", mgr |-> e.call.mgr, id |-> model,
                                error |-> e.thrown]
                /\ UNCHANGED <<isTrained, trainRuns, calls>>
           ELSE /\ isTrained' = e.isTrained
                /\ trainRuns' = e.trainRuns
                /\ calls' = [calls EXCEPT ![c] = e.call]
                /\ UNCHANGED returned
     IN  \E e \in {RunMLPredictionEnter(call, raw, isTrained, trainRuns)} : Settle(e)
  /\ UNCHANGED <<state, chartData, created>>

(***************************************************************************)
(* The dashboard hook (useDashboard) and apiService.predictDisasters.      *)
(***************************************************************************)
\* error: null
Null == "null"

\* the message runPrediction throws when fewer than 2 toggles are on
ValidationMessage == "Please select at least 2 features for prediction"

Toggles(on) == [key \in FeatureKeySet |-> key \in on]

initialFeatures == Toggles({"soilMoisture", "surfaceTemperature"})

initialLocation == [latitude |-> R(137563, 10000), longitude |-> R(1005018, 10000)]

\* the state useDashboard starts with (selectedLocation.name is left out)
initialState ==
  [selectedModel |-> "linear",
   selectedFeatures |-> initialFeatures,
   selectedLocation |-> initialLocation,
   predictionResults |-> <<>>,
   isLoading |-> FALSE,
   error |-> Null]

initialChartData == [key \in FeatureKeySet |-> <<>>]

\* a count that is one too high: a single toggle passes for two
selectedFeatureCountOffByOne(features) ==
  Cardinality({key \in FeatureKeySet : features[key]}) + 1

\* Object.values(selectedFeatures).filter(Boolean).length
selectedFeatureCount(features) == Cardinality({key \in FeatureKeySet : features[key]})

updateModel(model) ==
  /\ state' = [state EXCEPT !.selectedModel = model]
  /\ UNCHANGED <<isTrained, trainRuns, calls, returned, chartData, created>>

updateFeatures(features) ==
  /\ state' = [state EXCEPT !.selectedFeatures = features]
  /\ UNCHANGED <<isTrained, trainRuns, calls, returned, chartData, created>>

updateLocation(lat, lng) ==
  /\ state' = [state EXCEPT !.selectedLocation = [latitude |-> lat, longitude |-> lng]]
  /\ UNCHANGED <<isTrained, trainRuns, calls, returned, chartData, created>>

clearError ==
  /\ state' = [state EXCEPT !.error = Null]
  /\ UNCHANGED <<isTrained, trainRuns, calls, returned, chartData, created>>

clearResults ==
  /\ state' = [state EXCEPT !.predictionResults = <<>>]
  /\ UNCHANGED <<isTrained, trainRuns, calls, returned, chartData, created>>

\* a catch block that clears the spinner and drops the error
PredictionFailedSilently(st, message) == [st EXCEPT !.isLoading = FALSE]

\* the catch block of runPrediction: the message of the error is recorded
PredictionFailed(st, message) == [st EXCEPT !.isLoading = FALSE, !.error = message]

\* the fetches a call issues: one per selected signal ("pending"); a signal
\* that is not selected gets Promise.resolve({success: true, data: []})
\* (predictDisasters) or no promise at all (loadData)
NotFetched == [status |-> "skipped", success |-> TRUE, data |-> <<>>]

IssueFetches(features) ==
  [i \in 1..5 |-> IF features[FeatureKeys[i]]
                  THEN [status |-> "pending", success |-> TRUE, data |-> <<>>]
                  ELSE NotFetched]

\* runPrediction up to its first await.  With fewer than 2 toggles on, the
\* throw and the catch run before the function yields.
runPrediction(c) ==
  /\ IF selectedFeatureCount(state.selectedFeatures) < 2
     THEN /\ state' = PredictionFailed(state, ValidationMessage)
          /\ UNCHANGED calls
     ELSE /\ FreeSlot(c)
          /\ created + Cardinality(InFlight) < MaxResults
          /\ state' = [state EXCEPT !.isLoading = TRUE, !.error = Null]
          /\ calls' = [calls EXCEPT ![c] =
               [IdleCall EXCEPT !.op = "runPrediction", !.pc = "fetch",
                                !.model = state.selectedModel,
                                !.toggles = state.selectedFeatures,
                                !.latitude = state.selectedLocation.latitude,
                                !.longitude = state.selectedLocation.longitude,
                                !.fetch = IssueFetches(state.selectedFeatures)]]
  /\ UNCHANGED <<isTrained, trainRuns, returned, chartData, created>>

\* loadData up to its await of Promise.all
loadData(c) ==
  /\ FreeSlot(c)
  /\ state' = [state EXCEPT !.isLoading = TRUE, !.error = Null]
  /\ calls' = [calls EXCEPT ![c] =
       [IdleCall EXCEPT !.op = "loadData", !.pc = "fetch",
                        !.toggles = state.selectedFeatures,
                        !.latitude = state.selectedLocation.latitude,
                        !.longitude = state.selectedLocation.longitude,
                        !.fetch = IssueFetches(state.selectedFeatures)]]
  /\ UNCHANGED <<isTrained, trainRuns, returned, chartData, created>>

\* a failed fetch that hands its caller a sample all the same
FetchFailureWithData ==
  [status |-> "settled", success |-> FALSE,
   data |-> <<[timestamp |-> [kind |-> "iso", year |-> CurrentYear], latitude |-> One,
               longitude |-> One, value |-> One]>>]

\* the catch block of a fetcher: the request failed
FetchFailure == [status |-> "settled", success |-> FALSE, data |-> <<>>]

\* the return of a fetcher's try block
FetchSuccess(transformedData) ==
  [status |-> "settled", success |-> TRUE, data |-> transformedData]

\* get<Signal>Data of signal i, issued by call c, settles
FetchSettles(c, i, response) ==
  /\ calls[c].pc = "fetch"
  /\ calls[c].fetch[i].status = "pending"
  /\ calls' = [calls EXCEPT ![c].fetch[i] = response]
  /\ UNCHANGED <<isTrained, trainRuns, returned, state, chartData, created>>

\* a race: the first response to arrive lets the caller go on
AnySettled(call) == \E i \in 1..5 : call.fetch[i].status # "pending"

AllSettled(call) == \A i \in 1..5 : call.fetch[i].status # "pending"

\* response.data.map(item => ({timestamp, value}))
RECURSIVE ChartPoints(_)
ChartPoints(data) ==
  IF data = <<>> THEN <<>>
  ELSE <<[timestamp |-> Head(data).timestamp, value |-> Head(data).value]>>
       \o ChartPoints(Tail(data))

\* newChartData of loadData: one series for every response that succeeded
\* with at least one sample
NewChartData(fetch) ==
  [key \in FeatureKeySet |->
     LET response == fetch[KeyIndex(key)]
     IN  IF response.status = "settled" /\ response.success /\ Len(response.data) > 0
         THEN <<[name |-> key, data |-> ChartPoints(response.data)]>>
         ELSE <<>>]

\* loadData after Promise.all
LoadDataJoin(c) ==
  /\ calls[c].op = "loadData"
  /\ calls[c].pc = "fetch"
  /\ AllSettled(calls[c])
  /\ chartData' = NewChartData(calls[c].fetch)
  /\ state' = [state EXCEPT !.isLoading = FALSE]
  /\ calls' = [calls EXCEPT ![c] = IdleCall]
  /\ UNCHANGED <<isTrained, trainRuns, returned, created>>

\* predictDisasters after Promise.all: runMLPrediction is called with the
\* data field of every response.  An error thrown there is caught by
\* predictDisasters (success: false) and rethrown and caught by runPrediction.
PredictDisastersJoin(c) ==
  /\ calls[c].op = "runPrediction"
  /\ calls[c].pc = "fetch"
  /\ AllSettled(calls[c])
  /\ LET raw == [i \in 1..5 |-> calls[c].fetch[i].data]
         Settle(e) ==
           IF e.thrown # ""
           THEN /\ state' = PredictionFailed(state, e.thrown)
                /\ calls' = [calls EXCEPT ![c] = IdleCall]
                /\ UNCHANGED <<isTrained, trainRuns>>
           ELSE /\ isTrained' = e.isTrained
                /\ trainRuns' = e.trainRuns
                /\ calls' = [calls EXCEPT ![c] = e.call]
                /\ UNCHANGED state
     IN  \E e \in {RunMLPredictionEnter(calls[c], raw, isTrained, trainRuns)} : Settle(e)
  /\ UNCHANGED <<returned, chartData, created>>

\* the message of an error thrown by the tf runtime (model.fit, model.predict)
ModelError == "model error"

\* a rejection nobody catches: the state stays as it is
CallFailsUncaught(call, message) ==
  CASE call.op \in {"predict", "runMLPrediction"} ->
         /\ returned' = [kind |-> "error", mgr |-> call.mgr, id |-> call.id, error |-> message]
         /\ UNCHANGED state
    [] OTHER -> UNCHANGED <<returned, state>>

\* a promise awaited by call rejects with message: the rejection passes
\* through predict and manager.predict to whoever called; runMLPrediction
\* lets it through, predictDisasters catches it and answers success: false
\* with the message, runPrediction throws that message and catches it
CallFails(call, message) ==
  CASE call.op \in {"predict", "runMLPrediction"} ->
         /\ returned' = [kind |-> "error", mgr |-> call.mgr, id |-> call.id, error |-> message]
         /\ UNCHANGED state
    [] call.op = "runPrediction" ->
         /\ state' = PredictionFailed(state, message)
         /\ UNCHANGED returned
    [] OTHER -> UNCHANGED <<returned, state>>

\* model.fit of instance i, awaited by call c, rejects: train() of i and of
\* the called instance reject, no flag is set and predict() rejects.  The
\* trainings Promise.all still waits for go on, with nobody awaiting them.
\* Only the first MaxFitFailures trainings of an instance fail.
FitFails(c, i) ==
  /\ calls[c].pc = "train"
  /\ i \in calls[c].pending
  /\ trainRuns[i] <= MaxFitFailures
  /\ LET rest == calls[c].pending \ {i}
     IN  calls' = [calls EXCEPT ![c] =
           IF rest = {} THEN IdleCall
           ELSE [IdleCall EXCEPT !.op = "orphan", !.pc = "train",
                                 !.inst = calls[c].inst, !.pending = rest]]
  /\ CallFails(calls[c], ModelError)
  /\ UNCHANGED <<isTrained, trainRuns, chartData, created>>

\* model.predict of the called instance rejects
InferFails(c) ==
  /\ calls[c].pc = "infer"
  /\ calls' = [calls EXCEPT ![c] = IdleCall]
  /\ CallFails(calls[c], ModelError)
  /\ UNCHANGED <<isTrained, trainRuns, chartData, created>>

\* a list that grows at its end
AddPredictionResultLast(predictionResults, result) == predictionResults \o <<result>>

\* [response.data, ...prev.predictionResults]
AddPredictionResult(predictionResults, result) == <<result>> \o predictionResults

\* predict() of the called instance after its training guard: the networks
\* and trees answer, the prediction is assembled and handed to the caller,
\* which runs to its end: manager.predict returns it, runMLPrediction builds
\* the PredictionResult from it, runPrediction prepends that to the results
Infer(c, outs, leaves) ==
  /\ calls[c].pc = "infer"
  /\ \E prediction \in Predictions(calls[c].inst, calls[c].features, outs, leaves) :
       LET call == calls[c]
           result == PredictionResult(call, prediction, created + 1)
       IN  IF call.op = "predict"
           THEN /\ returned' = [kind |-> "prediction", mgr |-> call.mgr, id |-> call.id,
                                features |-> call.features, prediction |-> prediction]
                /\ UNCHANGED <<state, created>>
           ELSE IF call.op = "runMLPrediction"
           THEN /\ returned' = [kind |-> "result", mgr |-> call.mgr, id |-> call.id,
                                features |-> call.features, prediction |-> prediction,
                                processed |-> call.processed, result |-> result]
                /\ created' = created + 1
                /\ UNCHANGED state
           ELSE /\ state' = [state EXCEPT !.predictionResults = AddPredictionResult(@, result),
                                          !.isLoading = FALSE]
                /\ created' = created + 1
                /\ UNCHANGED returned
  /\ calls' = [calls EXCEPT ![c] = IdleCall]
  /\ UNCHANGED <<isTrained, trainRuns, chartData>>

(***************************************************************************)
(* SpecModels: the two managers called directly, with up to MaxCalls       *)
(* predict calls in flight.                                                *)
(***************************************************************************)
\* ids a caller may pass: the four of PredictionModel and one that is none of them
CallerIds == ModelIds \cup {"svm"}

\* feature vectors of the length the manager's path works with
FeatureVectors(mgr) ==
  LET len == IF mgr = "basic" THEN 5 ELSE 25
  IN  {[i \in 1..len |-> Zero], [i \in 1..len |-> One]}

\* outputs at the ends of the sigmoid's range
ExtremeOutputs == {Zero, One}

Init ==
  /\ isTrained = [i \in Instances |-> FALSE]
  /\ trainRuns = [i \in Instances |-> 0]
  /\ calls = [c \in CallIds |-> IdleCall]
  /\ returned = NoReturn
  /\ state = initialState
  /\ chartData = initialChartData
  /\ created = 0

\* a run exercises one registered model (instances share no state): a call
\* on a registered id is issued only when no other model has been trained
OneModel(mgr, modelType) ==
  LET inst == ManagerGet(mgr, modelType)
  IN  inst # "" =>
        \A i \in Instances : trainRuns[i] > 0 => i \in {inst} \cup SubModels(inst)

NextModels ==
  \/ \E c \in CallIds, mgr \in {"basic", "enhanced"}, modelType \in CallerIds :
       \E features \in FeatureVectors(mgr) :
         OneModel(mgr, modelType) /\ ManagerPredict(c, mgr, modelType, features)
  \/ \E c \in CallIds, i \in Instances : FitDone(c, i)
  \/ \E c \in CallIds : Infer(c, ExtremeOutputs, LeafValues)

SpecModels == Init /\ [][NextModels]_vars

(***************************************************************************)
(* Properties of the model layer (SpecModels).                             *)
(***************************************************************************)
\* C1: the trained-flag guard lets training of a predictor instance start
\* at most once, however the predict calls on it overlap.
C1_TrainedOnce == \A i \in Instances : trainRuns[i] <= 1

\* C8: every ModelPrediction a manager returns has droughtRisk, floodRisk and
\* confidence in [0,1] and, when it carries one, an uncertainty in [0,1].
C8_PredictionInUnit ==
  returned.kind = "prediction" =>
    /\ InUnit(returned.prediction.droughtRisk)
    /\ InUnit(returned.prediction.floodRisk)
    /\ InUnit(returned.prediction.confidence)
    /\ (returned.prediction.uncertainty # Undefined => InUnit(returned.prediction.uncertainty))

\* the ids registered with each manager, as the managers' constructors list them
C9_Registered(mgr, id) ==
  \/ mgr = "basic" /\ id \in {"linear", "neural", "random_forest", "ensemble"}
  \/ mgr = "enhanced" /\ id \in {"neural", "ensemble"}

\* C9: predict on a manager with an id that is not registered for it fails
\* with an error naming the id, invokes no predictor's train or predict and
\* uses no other model instead: only registered ids ever occupy a predictor,
\* on the instance registered under that id, and only they return predictions.
C9_UnknownModelFails ==
  [][LET Slots ==
           \A c \in CallIds :
             calls'[c].op = "predict" =>
               /\ C9_Registered(calls'[c].mgr, calls'[c].id)
               /\ calls'[c].inst = (IF calls'[c].mgr = "basic" THEN calls'[c].id
                                    ELSE "enhanced." \o calls'[c].id)
         Answers ==
           returned'.kind = "prediction" => C9_Registered(returned'.mgr, returned'.id)
         Failures ==
           (returned'.kind = "error" /\ returned' # returned) =>
             /\ ~C9_Registered(returned'.mgr, returned'.id)
             /\ returned'.error =
                  (IF returned'.mgr = "basic" THEN "Model " ELSE "Enhanced model ")
                  \o returned'.id \o " not found"
             /\ UNCHANGED <<isTrained, trainRuns, calls>>
     IN  Slots /\ Answers /\ Failures]_vars

\* the enhanced manager has been asked for 'linear' and has answered with the error
C9_Witness ==
  /\ returned.kind = "error"
  /\ returned.mgr = "enhanced"
  /\ returned.id = "linear"
  /\ returned.error = "Enhanced model linear not found"
  /\ \A i \in EnhancedInstances : trainRuns[i] = 0

(***************************************************************************)
(* SpecPipeline: runMLPrediction called with raw sample arrays, one        *)
(* request at a time.                                                      *)
(***************************************************************************)
Iso(year) == [kind |-> "iso", year |-> year]

Sample(timestamp, latitude, longitude, value) ==
  [timestamp |-> timestamp, latitude |-> latitude, longitude |-> longitude, value |-> value]

\* two readings of each signal, in the signal's unit
Readings ==
  <<<<Int2Num(60), Int2Num(70)>>, <<Int2Num(30), Int2Num(20)>>, <<Int2Num(40), Int2Num(50)>>,
    <<R(1, 2), R(3, 10)>>, <<Int2Num(10), Int2Num(4)>>>>

\* sample arrays of signal i taken at (lat, lon):
\*   "empty"   no sample
\*   "pair"    two good samples
\*   "dirty"   a good sample, one at latitude 0, one with a timestamp that
\*             does not parse, one that is 25 years old
\*   "dropped" one sample, at latitude 0
\*   "full"    fifty good samples of the same reading
\*   "high"    two good samples far outside the declared range, rising
\*   "low"     two good samples far outside the declared range, falling
SampleArray(shape, i, lat, lon) ==
  LET a == Readings[i][1]
      b == Readings[i][2]
      recent == Iso(CurrentYear - 1)
  IN  CASE shape = "empty" -> <<>>
        [] shape = "pair" -> <<Sample(recent, lat, lon, a), Sample(recent, lat, lon, b)>>
        [] shape = "dirty" ->
             <<Sample(recent, lat, lon, a), Sample(recent, Zero, lon, b),
               Sample([kind |-> "unparsable", year |-> 0], lat, lon, b),
               Sample(Iso(CurrentYear - 25), lat, lon, b)>>
        [] shape = "dropped" -> <<Sample(recent, Zero, lon, a)>>
        [] shape = "full" -> [j \in 1..50 |-> Sample(recent, lat, lon, a)]
        [] shape = "high" -> <<Sample(recent, lat, lon, Int2Num(120)),
                               Sample(recent, lat, lon, Int2Num(200))>>
        [] shape = "low" -> <<Sample(recent, lat, lon, Int2Num(-120)),
                              Sample(recent, lat, lon, Int2Num(-200))>>

\* the shapes of the five arrays of a request
DatasetShapes ==
  {<<"empty", "empty", "empty", "empty", "empty">>,
   <<"pair", "pair", "empty", "empty", "empty">>,
   <<"pair", "pair", "pair", "pair", "pair">>,
   <<"dirty", "dirty", "dirty", "dirty", "dirty">>,
   <<"dropped", "dropped", "dropped", "dropped", "dropped">>,
   <<"full", "pair", "dirty", "dropped", "empty">>,
   <<"full", "full", "full", "full", "full">>,
   <<"high", "high", "high", "high", "high">>,
   <<"low", "low", "low", "low", "low">>}

Dataset(shapes, lat, lon) == [i \in 1..5 |-> SampleArray(shapes[i], i, lat, lon)]

\* Bangkok (tropical), the Sahara (desert, tropical), the Norwegian coast
\* north of the polar circle (polar, coastal), the Himalaya (mountainous),
\* the Kazakh steppe (no region), the Australian desert (desert, coastal),
\* the Taymyr peninsula (polar only)
Locations ==
  {initialLocation,
   [latitude |-> Int2Num(20), longitude |-> Int2Num(10)],
   [latitude |-> Int2Num(-25), longitude |-> Int2Num(130)],
   [latitude |-> Int2Num(75), longitude |-> Int2Num(100)],
   [latitude |-> Int2Num(68), longitude |-> Int2Num(15)],
   [latitude |-> Int2Num(30), longitude |-> Int2Num(80)],
   [latitude |-> Int2Num(50), longitude |-> Int2Num(60)]}

FeatureChoices == {initialFeatures, Toggles(FeatureKeySet)}

\* the caller takes the value the promise settled with
Consume ==
  /\ returned # NoReturn
  /\ returned' = NoReturn
  /\ UNCHANGED <<isTrained, trainRuns, calls, state, chartData, created>>

NextPipeline ==
  \/ \E c \in CallIds, shapes \in DatasetShapes, model \in ModelIds,
        features \in FeatureChoices, location \in Locations :
       /\ returned = NoReturn
       /\ InFlight = {}
       /\ RunMLPrediction(c, Dataset(shapes, location.latitude, location.longitude),
                          model, features, location.latitude, location.longitude)
  \/ \E c \in CallIds, i \in Instances : FitDone(c, i)
  \/ \E c \in CallIds : Infer(c, ThresholdOutputs, LeafValues)
  \/ Consume

SpecPipeline == Init /\ [][NextPipeline]_vars

(***************************************************************************)
(* Properties of runMLPrediction (SpecPipeline).                           *)
(***************************************************************************)
\* what a request that went down the enhanced (basic) path looks like: the
\* manager, the registered instance, the length of the vector handed to
\* predict and the fields of the preprocessor's answer
C2_OnEnhancedPath(mgr, inst, features, processed) ==
  /\ mgr = "enhanced"
  /\ inst \in EnhancedInstances
  /\ Len(features) = 25
  /\ Len(processed.statistics) = 25
  /\ processed.dataRichness # Undefined

C2_OnBasicPath(mgr, inst, features, processed) ==
  /\ mgr = "basic"
  /\ inst \in BasicInstances
  /\ Len(features) = 5
  /\ Len(processed.statistics) = 5
  /\ processed.dataRichness = Undefined

\* C2: runMLPrediction takes the enhanced preprocessor (25 features) and the
\* enhanced manager exactly for 'neural' and 'ensemble', the basic
\* preprocessor (5 features) and the basic manager for every other model; no
\* manager is handed a vector of the other path's length.
C2_Routing ==
  /\ \A c \in CallIds :
       calls[c].op = "runMLPrediction" =>
         IF calls[c].model \in {"neural", "ensemble"}
         THEN C2_OnEnhancedPath(calls[c].mgr, calls[c].inst, calls[c].features,
                                calls[c].processed)
         ELSE C2_OnBasicPath(calls[c].mgr, calls[c].inst, calls[c].features,
                             calls[c].processed)
  /\ returned.kind = "result" =>
       IF returned.result.model \in {"neural", "ensemble"}
       THEN /\ returned.mgr = "enhanced"
            /\ Len(returned.features) = 25
       ELSE /\ returned.mgr = "basic"
            /\ Len(returned.features) = 5

\* an 'ensemble' request has been answered by the enhanced manager from 25 features
C2_Witness ==
  /\ returned.kind = "result"
  /\ returned.result.model = "ensemble"
  /\ returned.mgr = "enhanced"
  /\ Len(returned.features) = 25
  /\ trainRuns["enhanced.ensemble"] = 1
  /\ trainRuns["ensemble"] = 0

\* the bucket of a probability, with the boundaries in the higher bucket
C5_Bucket(risk) ==
  /\ Lt(risk.probability, R(1, 4)) => risk.level = "low"
  /\ (Ge(risk.probability, R(1, 4)) /\ Lt(risk.probability, R(1, 2))) => risk.level = "medium"
  /\ (Ge(risk.probability, R(1, 2)) /\ Lt(risk.probability, R(3, 4))) => risk.level = "high"
  /\ Ge(risk.probability, R(3, 4)) => risk.level = "extreme"
  /\ risk.level \in {"low", "medium", "high", "extreme"}

\* C5: in every PredictionResult, on both paths, the level of the drought
\* risk and of the flood risk is the bucket of its probability: low below
\* 0.25, medium from 0.25, high from 0.5, extreme from 0.75.
C5_LevelBuckets ==
  returned.kind = "result" =>
    /\ C5_Bucket(returned.result.droughtRisk)
    /\ C5_Bucket(returned.result.floodRisk)

\* a result on the boundary: drought at 0.25 is medium, flood at 0.2499 is low
C5_Witness ==
  /\ returned.kind = "result"
  /\ returned.result.droughtRisk.probability = R(1, 4)
  /\ returned.result.droughtRisk.level = "medium"
  /\ returned.result.floodRisk.probability = R(2499, 10000)
  /\ returned.result.floodRisk.level = "low"

\* C6: the confidence of both risks in the PredictionResult is at most the
\* confidence the model returned, and equal to it exactly when quality is 1
\* (and, on the enhanced path, dataRichness is 1 too).
C6_ConfidenceDampened ==
  returned.kind = "result" =>
    LET raw == returned.prediction.confidence
        undamped ==
          /\ NumEq(returned.processed.quality, One)
          /\ returned.mgr = "enhanced" => NumEq(returned.processed.dataRichness, One)
        Dampened(risk) ==
          /\ Le(risk.confidence, raw)
          /\ NumEq(risk.confidence, raw) <=> undamped
    IN  Dampened(returned.result.droughtRisk) /\ Dampened(returned.result.floodRisk)

\* C7: quality and completeness, and dataRichness on the enhanced path, of
\* what the preprocessors return are numbers in [0,1], whatever the arrays.
C7_ScoresInUnit ==
  \A c \in CallIds :
    calls[c].op = "runMLPrediction" =>
      /\ InUnit(calls[c].processed.quality)
      /\ InUnit(calls[c].processed.completeness)
      /\ calls[c].mgr = "enhanced" => InUnit(calls[c].processed.dataRichness)

(***************************************************************************)
(* Spec: the dashboard.  The user edits the selection and runs             *)
(* predictions; the fetches of a call settle one by one.                   *)
(***************************************************************************)
\* the models the user switches between: one of each path
DashboardModels == {"linear", "neural"}

\* the toggle sets the user switches between: one and two signals
DashboardFeatures == {Toggles({"soilMoisture"}), initialFeatures}

\* Bangkok, and two clicks on the map's neighbouring copies of the world:
\* MapClickHandler passes e.latlng on unwrapped, so the longitude lies
\* beyond 180 or below -180
DashboardLocations ==
  {initialLocation,
   [latitude |-> R(137563, 10000), longitude |-> R(4605018, 10000)],
   [latitude |-> Int2Num(20), longitude |-> Int2Num(-200)]}

\* what a fetcher of signal i can settle with for a request at (lat, lon)
FetchResponses(i, lat, lon) ==
  {FetchFailure, FetchSuccess(SampleArray("pair", i, lat, lon))}

\* one output of the networks, one leaf of the trees
DashboardOutputs == {R(1, 2)}

DashboardLeaves == {[droughtRisk |-> R(95, 100), floodRisk |-> R(5, 100)]}

Next ==
  \/ \E model \in DashboardModels : updateModel(model)
  \/ \E features \in DashboardFeatures : updateFeatures(features)
  \/ \E location \in DashboardLocations : updateLocation(location.latitude, location.longitude)
  \/ clearError
  \/ clearResults
  \/ \E c \in CallIds :
       /\ \/ selectedFeatureCount(state.selectedFeatures) < 2
          \/ created + Cardinality(InFlight) < MaxPredictions
       /\ runPrediction(c)
  \/ \E c \in CallIds, i \in 1..5 :
       \E response \in FetchResponses(i, calls[c].latitude, calls[c].longitude) :
         FetchSettles(c, i, response)
  \/ \E c \in CallIds : PredictDisastersJoin(c)
  \/ \E c \in CallIds, i \in Instances : FitDone(c, i)
  \/ \E c \in CallIds : Infer(c, DashboardOutputs, DashboardLeaves)

Spec == Init /\ [][Next]_vars

(***************************************************************************)
(* SpecCharts: the dashboard's chart data.  The user edits the selection   *)
(* and loads the charts, one load at a time.                               *)
(***************************************************************************)
NextCharts ==
  \/ \E features \in DashboardFeatures : updateFeatures(features)
  \/ \E location \in DashboardLocations : updateLocation(location.latitude, location.longitude)
  \/ clearError
  \/ \E c \in CallIds : (\A d \in CallIds : calls[d].op = "none") /\ loadData(c)
  \/ \E c \in CallIds, i \in 1..5 :
       \E response \in FetchResponses(i, calls[c].latitude, calls[c].longitude) :
         FetchSettles(c, i, response)
  \/ \E c \in CallIds : LoadDataJoin(c)

SpecCharts == Init /\ [][NextCharts]_vars

(***************************************************************************)
(* Properties of the dashboard, checked under Spec.                        *)
(***************************************************************************)
\* the number of toggles that are on, counted key by key
TogglesOn(features) ==
  Cardinality({i \in 1..5 : features[FeatureKeys[i]]})

\* C3: when runPrediction is invoked while fewer than 2 feature toggles are
\* true, the request is rejected before any fetch, preprocessing or model
\* call: no call is started (no fetch is issued, no instance is trained),
\* predictionResults is left unchanged, error becomes the validation message
\* and isLoading ends false; and no request in flight ever carries fewer
\* than 2 toggles.
C3_TooFewTogglesRejected ==
  /\ [](\A c \in CallIds :
          calls[c].op = "runPrediction" => TogglesOn(calls[c].toggles) >= 2)
  /\ [][\A c \in CallIds :
          (TogglesOn(state.selectedFeatures) < 2 /\ runPrediction(c)) =>
            /\ calls' = calls
            /\ isTrained' = isTrained
            /\ trainRuns' = trainRuns
            /\ created' = created
            /\ state'.predictionResults = state.predictionResults
            /\ state'.error = ValidationMessage
            /\ state'.isLoading = FALSE]_vars

\* a request with a single toggle was rejected after an earlier prediction
\* had been delivered: the result is still there, nothing is in flight
C3_Witness ==
  /\ TogglesOn(state.selectedFeatures) = 1
  /\ state.error = ValidationMessage
  /\ state.isLoading = FALSE
  /\ Len(state.predictionResults) = 1
  /\ \A c \in CallIds : calls[c] = IdleCall

\* latitude within [-90, 90] and longitude within [-180, 180]
ValidCoordinates(latitude, longitude) ==
  /\ Ge(latitude, Int2Num(-90)) /\ Le(latitude, Int2Num(90))
  /\ Ge(longitude, Int2Num(-180)) /\ Le(longitude, Int2Num(180))

\* C4: a prediction request whose location has latitude outside [-90, 90]
\* or longitude outside [-180, 180] is rejected before any fetch,
\* preprocessing, training or model prediction, and no PredictionResult is
\* produced for it: no request in flight and no delivered result carries
\* such a location.
C4_InvalidCoordinatesRejected ==
  /\ \A c \in CallIds :
       calls[c].op = "runPrediction" =>
         ValidCoordinates(calls[c].latitude, calls[c].longitude)
  /\ \A k \in 1..Len(state.predictionResults) :
       ValidCoordinates(state.predictionResults[k].location.latitude,
                        state.predictionResults[k].location.longitude)

\* the sample arrays of a request with every failed fetch taken as empty
Degraded(fetch) ==
  [i \in 1..5 |-> IF fetch[i].success THEN fetch[i].data ELSE <<>>]

\* C10: in predictDisasters a failed per-signal fetch (success: false) is
\* handled exactly like an empty sample array for that signal: once all
\* fetches have settled the request goes on to preprocessing and to the
\* model with the remaining signals' samples, and what it preprocesses is
\* what it would have preprocessed had the failed fetches returned no
\* sample; the request is not aborted.
C10_FailedFetchIsEmpty ==
  [][\A c \in CallIds :
       (/\ calls[c].op = "runPrediction"
        /\ calls[c].pc = "fetch"
        /\ AllSettled(calls[c])
        /\ calls'[c] # calls[c]) =>
         LET call == calls[c]
             degraded == Degraded(call.fetch)
         IN  /\ calls'[c].op = "runPrediction"
             /\ calls'[c].pc \in {"train", "infer"}
             /\ calls'[c].raw = degraded
             /\ calls'[c].processed =
                  (IF call.model \in {"neural", "ensemble"}
                   THEN processDataForEnhancedML(degraded, call.latitude, call.longitude)
                   ELSE processDataForML(degraded, call.latitude, call.longitude))
             /\ state'.error = state.error]_vars

\* a request went on to its model after one of its fetches had failed and
\* another had returned samples
C10_Witness ==
  \E c \in CallIds :
    /\ calls[c].op = "runPrediction"
    /\ calls[c].pc = "infer"
    /\ \E i \in 1..5 : ~calls[c].fetch[i].success
    /\ \E j \in 1..5 : calls[c].fetch[j].success /\ Len(calls[c].fetch[j].data) > 0
    /\ calls[c].raw = Degraded(calls[c].fetch)

\* C11: in predictDisasters the five per-signal inputs are joined before
\* any preprocessing: a request leaves its fetch phase (runMLPrediction
\* starts) only when no fetch it issued is still pending, whatever the
\* order the fetches settled in; for a deselected signal no fetch is issued
\* and an empty array is substituted.
C11_JoinBeforePreprocessing ==
  /\ [](\A c \in CallIds : calls[c].op = "runPrediction" =>
          \A i \in 1..5 :
            /\ (calls[c].fetch[i].status = "skipped") <=> ~calls[c].toggles[FeatureKeys[i]]
            /\ calls[c].fetch[i].status = "skipped" =>
                 calls[c].fetch[i].success /\ calls[c].fetch[i].data = <<>>
            /\ calls[c].pc # "fetch" =>
                 /\ calls[c].fetch[i].status # "pending"
                 /\ calls[c].raw[i] = calls[c].fetch[i].data)
  /\ [][\A c \in CallIds :
          (calls[c].op = "runPrediction" /\ calls[c].pc = "fetch" /\ calls'[c].pc # "fetch") =>
            \A i \in 1..5 : calls[c].fetch[i].status # "pending"]_vars

\* a request went on to preprocessing with samples for a selected signal
\* and the substituted empty array for a deselected one
C11_Witness ==
  \E c \in CallIds :
    /\ calls[c].op = "runPrediction"
    /\ calls[c].pc \in {"train", "infer"}
    /\ \E i \in 1..5 : calls[c].fetch[i].status = "skipped" /\ calls[c].raw[i] = <<>>
    /\ \A j \in 1..5 : calls[c].toggles[FeatureKeys[j]] =>
         calls[c].fetch[j].status = "settled" /\ Len(calls[c].raw[j]) > 0

(***************************************************************************)
(* SpecResults: the result list of the dashboard.  All seven operations    *)
(* of the hook, with up to MaxResults predictions; the charts are loaded   *)
(* while they are still empty, one load at a time.                         *)
(***************************************************************************)
ResultsModels == {"random_forest"}

ResultsLocations == {initialLocation, [latitude |-> Int2Num(20), longitude |-> Int2Num(10)]}

\* every fetch of these runs succeeds
ResultsResponses(i, lat, lon) == {FetchSuccess(SampleArray("pair", i, lat, lon))}

NextResults ==
  \/ \E model \in ResultsModels : updateModel(model)
  \/ \E features \in DashboardFeatures : updateFeatures(features)
  \/ \E location \in ResultsLocations : updateLocation(location.latitude, location.longitude)
  \/ clearError
  \/ clearResults
  \/ \E c \in CallIds : runPrediction(c)
  \/ \E c \in CallIds :
       /\ chartData = initialChartData
       /\ \A d \in CallIds : calls[d].op # "loadData"
       /\ loadData(c)
  \/ \E c \in CallIds, i \in 1..5 :
       \E response \in ResultsResponses(i, calls[c].latitude, calls[c].longitude) :
         FetchSettles(c, i, response)
  \/ \E c \in CallIds : LoadDataJoin(c)
  \/ \E c \in CallIds : PredictDisastersJoin(c)
  \/ \E c \in CallIds, i \in Instances : FitDone(c, i)
  \/ \E c \in CallIds : Infer(c, DashboardOutputs, DashboardLeaves)

SpecResults == Init /\ [][NextResults]_vars

(***************************************************************************)
(* Properties of the result list (SpecResults).                            *)
(***************************************************************************)
\* C12: after any sequence of dashboard operations predictionResults holds
\* exactly the results of the successful predictions completed since the
\* last clearResults, most recent first: a step leaves the list as it is,
\* or is clearResults and empties it, or is the completion of a prediction
\* and puts that prediction's new result in front of the unchanged old
\* list; every completion does so, and the entries stay in the order of
\* their creation, newest first.
C12_ResultsMostRecentFirst ==
  /\ [](\A k \in 1..Len(state.predictionResults) :
          /\ state.predictionResults[k].id <= created
          /\ k > 1 => state.predictionResults[k].id < state.predictionResults[k - 1].id)
  /\ [][LET old == state.predictionResults
            new == state'.predictionResults
            Completed(c) == /\ calls[c].op = "runPrediction"
                            /\ calls[c].pc = "infer"
                            /\ calls'[c].op = "none"
            Prepended(c) == /\ Len(new) = Len(old) + 1
                            /\ Tail(new) = old
                            /\ Head(new).id = created + 1
                            /\ Head(new).model = calls[c].model
                            /\ Head(new).features = calls[c].toggles
                            /\ Head(new).location.latitude = calls[c].latitude
                            /\ Head(new).location.longitude = calls[c].longitude
        IN  /\ \A c \in CallIds : Completed(c) => Prepended(c)
            /\ \/ new = old
               \/ new = <<>> /\ clearResults
               \/ \E c \in CallIds : Completed(c) /\ Prepended(c)]_vars

\* two predictions were completed, the one requested for the other place
\* last, while loaded charts were on display
C12_Witness ==
  /\ Len(state.predictionResults) = 2
  /\ state.predictionResults[1].id = 2
  /\ state.predictionResults[2].id = 1
  /\ state.predictionResults[1].location # state.predictionResults[2].location
  /\ chartData # initialChartData

(***************************************************************************)
(* SpecFailures: predictions of the dashboard whose training or model can  *)
(* fail, with up to MaxResults results; every fetch succeeds.              *)
(***************************************************************************)
NextFailures ==
  \/ \E model \in DashboardModels : updateModel(model)
  \/ clearError
  \/ \E c \in CallIds : runPrediction(c)
  \/ \E c \in CallIds, i \in 1..5 :
       \E response \in ResultsResponses(i, calls[c].latitude, calls[c].longitude) :
         FetchSettles(c, i, response)
  \/ \E c \in CallIds : PredictDisastersJoin(c)
  \/ \E c \in CallIds, i \in Instances : FitDone(c, i)
  \/ \E c \in CallIds, i \in Instances : FitFails(c, i)
  \/ \E c \in CallIds : Infer(c, DashboardOutputs, DashboardLeaves)
  \/ \E c \in CallIds : InferFails(c)

SpecFailures == Init /\ [][NextFailures]_vars

AggregatedLevels(mgr, raw) ==
  IF mgr = "enhanced" THEN aggregateDataWithTimeSeries(raw).basicFeatures
  ELSE LET features == aggregateData(raw)
       IN  <<features.soilMoisture, features.temperature, features.fireIndex,
             features.seaLevel, features.glacierMelting>>

\* C14: for every model id a prediction over sample arrays some or all of
\* which are empty does not fail: no request ends in an error, each empty
\* array gives its level feature the value 0 after aggregation, and when all
\* five arrays are empty the quality of the processed data is 0.
C14_EmptySignalsNeutral ==
  /\ returned.kind # "error"
  /\ \A c \in CallIds :
       calls[c].op = "runMLPrediction" =>
         LET raw == calls[c].raw
             levels == AggregatedLevels(calls[c].mgr, raw)
         IN  /\ \A i \in 1..5 : raw[i] = <<>> => NumEq(levels[i], Zero)
             /\ (\A i \in 1..5 : raw[i] = <<>>) => NumEq(calls[c].processed.quality, Zero)

ShouldRetainBasic(item) ==
  /\ item.timestamp.kind = "iso"
  /\ Ge(item.latitude, Int2Num(-90)) /\ Le(item.latitude, Int2Num(90))
  /\ Ge(item.longitude, Int2Num(-180)) /\ Le(item.longitude, Int2Num(180))

ShouldRetainEnhanced(item) ==
  ShouldRetainBasic(item) /\ CurrentYear - item.timestamp.year <= 10

\* C16: cleaning retains a sample if and only if its timestamp is present
\* and parses, its latitude is in [-90, 90] and its longitude in [-180, 180]
\* (and, on the enhanced path, its timestamp is not older than 10 years); a
\* sample at latitude 0 or longitude 0 that is otherwise valid is retained.
C16_CleaningRetainsValid ==
  \A c \in CallIds :
    calls[c].op = "runMLPrediction" =>
      \A i \in 1..5 :
        IF calls[c].mgr = "enhanced"
        THEN cleanAndValidateData(calls[c].raw[i]).cleanData
               = SelectSeq(calls[c].raw[i], ShouldRetainEnhanced)
        ELSE cleanData(calls[c].raw[i]) = SelectSeq(calls[c].raw[i], ShouldRetainBasic)

\* the clamps of the regions (lat, lon) is classified in, applied one after
\* the other to a running value b of the five level features, in the order
\* desert, polar, coastal, tropical, mountainous; the basic path has the
\* first three and its thresholds are in the signals' units
SequentialClamps(b, lat, lon, enhanced) ==
  LET u == IF enhanced THEN R(1, 100) ELSE One
      desert == IF isDesertRegion(lat, lon)
                THEN <<MathMin(b[1], Mul(Int2Num(15), u)), MathMax(b[2], Mul(Int2Num(25), u)),
                       MathMax(b[3], Mul(Int2Num(60), u)), Zero, Zero>>
                ELSE b
      polar == IF isPolarRegion(lat, lon)
               THEN <<MathMin(desert[1], Mul(Int2Num(40), u)),
                      MathMin(desert[2], Mul(Int2Num(15), u)),
                      MathMin(desert[3], Mul(Int2Num(30), u)), Zero,
                      MathMax(desert[5], Mul(Int2Num(5), u))>>
               ELSE desert
      coastal == IF isCoastalRegion(lat, lon)
                 THEN [polar EXCEPT ![4] = MathMax(polar[4], R(5, 100))]
                 ELSE polar
      tropical == IF enhanced /\ isTropicalRegion(lat, lon)
                  THEN [coastal EXCEPT ![1] = MathMax(coastal[1], R(6, 10)),
                                       ![2] = MathMax(coastal[2], R(2, 10)),
                                       ![3] = MathMin(coastal[3], R(6, 10))]
                  ELSE coastal
  IN  IF enhanced /\ isMountainousRegion(lat, lon)
      THEN [tropical EXCEPT ![2] = MathMin(tropical[2], R(3, 10)),
                            ![5] = MathMax(tropical[5], R(2, 100))]
      ELSE tropical

\* the five level features after the geographic adjustment
AdjustedLevels(mgr, raw, lat, lon) ==
  IF mgr = "enhanced"
  THEN adjustForGeographicContextEnhanced(aggregateDataWithTimeSeries(raw), lat, lon).basicFeatures
  ELSE LET features == adjustForGeographicContext(aggregateData(raw), lat, lon)
       IN  <<features.soilMoisture, features.temperature, features.fireIndex,
             features.seaLevel, features.glacierMelting>>

\* C17: on both paths the geographic adjustment is the sequential
\* composition of the clamps of every region the point is classified in,
\* in the order desert, polar, coastal, tropical, mountainous (basic path:
\* desert, polar, coastal): each later clamp works on the output of the
\* earlier ones, so that a desert and coastal point has sea level 0.05.
C17_ClampsCompose ==
  \A c \in CallIds :
    calls[c].op = "runMLPrediction" =>
      LET call == calls[c]
      IN  AdjustedLevels(call.mgr, call.raw, call.latitude, call.longitude)
            = SequentialClamps(AggregatedLevels(call.mgr, call.raw),
                               call.latitude, call.longitude, call.mgr = "enhanced")

\* C18: on the enhanced path, for a point that is polar (|latitude| > 66.5)
\* and not coastal, the level slots of the normalized vector satisfy
\* soil moisture <= 0.4, temperature <= 0.15, fire index <= 0.3,
\* sea level = 0 and glacier melting >= 0.05.
C18_PolarSlotsBounded ==
  \A c \in CallIds :
    (/\ calls[c].op = "runMLPrediction"
     /\ calls[c].mgr = "enhanced"
     /\ isPolarRegion(calls[c].latitude, calls[c].longitude)
     /\ ~isCoastalRegion(calls[c].latitude, calls[c].longitude)) =>
      LET features == calls[c].processed.features
      IN  /\ Le(features[1], R(4, 10))
          /\ Le(features[2], R(15, 100))
          /\ Le(features[3], R(3, 10))
          /\ features[4] = Zero
          /\ Ge(features[5], R(5, 100))

\* C19: on both paths, for a desert point, also one that is tropical or
\* coastal as well, the soil-moisture slot of the normalized vector is at
\* most 0.15.
C19_DesertSoilBounded ==
  \A c \in CallIds :
    (calls[c].op = "runMLPrediction"
       /\ isDesertRegion(calls[c].latitude, calls[c].longitude)) =>
      Le(calls[c].processed.features[1], R(15, 100))

\* a desert and coastal point on the basic path whose aggregated soil
\* moisture is above 15: the slot is exactly 0.15
C19_Witness ==
  \E c \in CallIds :
    /\ calls[c].op = "runMLPrediction" /\ calls[c].mgr = "basic"
    /\ isDesertRegion(calls[c].latitude, calls[c].longitude)
    /\ isCoastalRegion(calls[c].latitude, calls[c].longitude)
    /\ Gt(AggregatedLevels("basic", calls[c].raw)[1], Int2Num(15))
    /\ calls[c].processed.features[1] = R(15, 100)

\* the quality score of five per-signal clean counts: 0.6 times the ratio
\* of the smallest to the largest count (0 when the largest is 0) plus 0.4
\* times the mean of the per-signal scores min(1, count/10)
ConsistencyRichnessQuality(cleanCounts) ==
  LET maxCount == CHOOSE m \in {cleanCounts[i] : i \in 1..5} :
                    \A i \in 1..5 : cleanCounts[i] <= m
      minCount == CHOOSE m \in {cleanCounts[i] : i \in 1..5} :
                    \A i \in 1..5 : m <= cleanCounts[i]
      consistency == IF maxCount > 0 THEN R(minCount, maxCount) ELSE Zero
      richness == Div(SumSeq([i \in 1..5 |-> MathMin(One, R(cleanCounts[i], 10))]),
                      Int2Num(5))
  IN  Add(Mul(R(6, 10), consistency), Mul(R(4, 10), richness))

\* C20: on the enhanced path the quality score is 0.6*consistency +
\* 0.4*richness over the five per-signal clean sample counts, and
\* dataRichness is min(1, total clean points / 250).
C20_EnhancedQualityFormula ==
  \A c \in CallIds :
    (calls[c].op = "runMLPrediction" /\ calls[c].mgr = "enhanced") =>
      LET cleanCounts ==
            [i \in 1..5 |-> Len(cleanAndValidateData(calls[c].raw[i]).cleanData)]
          totalCleanPoints == cleanCounts[1] + cleanCounts[2] + cleanCounts[3]
                                + cleanCounts[4] + cleanCounts[5]
      IN  /\ calls[c].processed.quality = ConsistencyRichnessQuality(cleanCounts)
          /\ calls[c].processed.dataRichness = MathMin(One, R(totalCleanPoints, 250))

(***************************************************************************)
(* SpecSequential: the two managers called directly, one predict call at   *)
(* a time: a call is issued only when no other call is in flight.          *)
(***************************************************************************)
NextSequential ==
  \/ \E c \in CallIds, mgr \in {"basic", "enhanced"}, modelType \in CallerIds :
       \E features \in FeatureVectors(mgr) :
         /\ \A d \in CallIds : calls[d].op = "none"
         /\ ManagerPredict(c, mgr, modelType, features)
  \/ \E c \in CallIds, i \in Instances : FitDone(c, i)
  \/ \E c \in CallIds : Infer(c, ExtremeOutputs, LeafValues)

SpecSequential == Init /\ [][NextSequential]_vars

\* the instances a predict on inst reaches: inst and the sub-models it holds
Reached(inst) == {inst} \cup SubModels(inst)

AverageInputs == {Int2Num(-100), Zero, One, Int2Num(2), Int2Num(100)}

CalculateRobustAverage(values) ==
  /\ returned = NoReturn
  /\ returned' = [kind |-> "average", values |-> values,
                  average |-> calculateRobustAverage(values),
                  kept |-> IF Len(values) = 0 THEN <<>> ELSE filteredValues(values)]
  /\ UNCHANGED <<isTrained, trainRuns, calls, state, chartData, created>>

\* EnsembleModel.predict once the three sub-model predictions have arrived
EnsembleBlend(linearPred, neuralPred, rfPred) ==
  /\ returned = NoReturn
  /\ returned' = [kind |-> "blend", parts |-> <<linearPred, neuralPred, rfPred>>,
                  prediction |-> EnsembleModel_predict(linearPred, neuralPred, rfPred)]
  /\ UNCHANGED <<isTrained, trainRuns, calls, state, chartData, created>>

\* training sets of n examples: feature 0 differs in every example, feature
\* 2 takes two values, the others are the same in all; labels in [0, 1]
TrainingSet(n) ==
  [i \in 1..n |->
     [features |-> <<Int2Num(i), Int2Num(7), IF i <= 3 THEN Zero ELSE One, Zero, Zero>>,
      droughtRisk |-> R(i, 20), floodRisk |-> R(20 - i, 20)]]

\* Math.random() draws: the low end, the middle and close to 1
RandomDraws == {Zero, R(1, 2), R(9, 10)}

\* a mean that divides by the size of the whole training set
LabelMeanOverAll(data, examples, label) ==
  R(SumInt([j \in 1..Len(data) |->
              IF j \in examples THEN data[j][label].n * (20 \div data[j][label].d) ELSE 0]),
    20 * Len(data))

\* data.reduce((sum, d) => sum + d[label], 0) / data.length over the
\* examples (indices into data) a node holds; the labels of TrainingSet are
\* twentieths, which are summed as such
LabelMean(data, examples, label) ==
  R(SumInt([j \in 1..Len(data) |->
              IF j \in examples THEN data[j][label].n * (20 \div data[j][label].d) ELSE 0]),
    20 * Cardinality(examples))

\* RandomForestModel.train calls createTree(data): the recursion is kept as
\* the stack of the example sets whose createTree call is yet to run, the
\* nodes as the set of those already built
CreateTree(n) ==
  /\ returned = NoReturn
  /\ returned' = [kind |-> "tree", data |-> TrainingSet(n), stack |-> <<1..n>>, nodes |-> {}]
  /\ UNCHANGED <<isTrained, trainRuns, calls, state, chartData, created>>

\* one call of createTree on the set on top of the stack, with the feature
\* index and the Math.random() value it draws for the threshold
CreateTreeCall(featureIndex, random) ==
  /\ returned.kind = "tree"
  /\ returned.stack # <<>>
  /\ \E data \in {returned.data}, examples \in {Head(returned.stack)} :
       \E featureValues \in {{data[j].features[featureIndex + 1] : j \in examples}} :
         \E min \in {v \in featureValues : \A w \in featureValues : Le(v, w)},
            max \in {v \in featureValues : \A w \in featureValues : Ge(v, w)} :
           \E threshold \in {Add(min, Mul(random, Sub(max, min)))} :
             \E leftData \in {{j \in examples : Le(data[j].features[featureIndex + 1], threshold)}},
                rightData \in {{j \in examples : Gt(data[j].features[featureIndex + 1], threshold)}},
                avgDrought \in {LabelMean(data, examples, "droughtRisk")},
                avgFlood \in {LabelMean(data, examples, "floodRisk")} :
               LET leaf == [isLeaf |-> TRUE, examples |-> examples,
                            droughtRisk |-> avgDrought, floodRisk |-> avgFlood,
                            left |-> {}, right |-> {}]
               IN  IF Cardinality(examples) < 10
                   THEN returned' = [returned EXCEPT !.stack = Tail(@),
                                                     !.nodes = @ \cup {leaf}]
                   ELSE IF leftData = {} \/ rightData = {}
                   THEN returned' =
                          [returned EXCEPT
                             !.stack = Tail(@),
                             !.nodes = @ \cup {[leaf EXCEPT !.left = leftData,
                                                            !.right = rightData]}]
                   ELSE returned' =
                          [returned EXCEPT
                             !.stack = <<leftData, rightData>> \o Tail(@),
                             !.nodes = @ \cup {[isLeaf |-> FALSE, examples |-> examples,
                                                droughtRisk |-> Undefined,
                                                floodRisk |-> Undefined,
                                                left |-> leftData, right |-> rightData]}]
  /\ UNCHANGED <<isTrained, trainRuns, calls, state, chartData, created>>

NextFunctions ==
  \/ \E n \in 0..MaxLen : \E values \in [1..n -> AverageInputs] : CalculateRobustAverage(values)
  \/ \E features \in {[i \in 1..5 |-> One]} :
       \E linearPred \in Predictions("ensemble.linearModel", features, BlendOutputs, LeafValues),
          neuralPred \in Predictions("ensemble.neuralModel", features, BlendOutputs, LeafValues),
          rfPred \in Predictions("ensemble.randomForestModel", features, BlendOutputs, BlendLeaves) :
         EnsembleBlend(linearPred, neuralPred, rfPred)
  \/ \E n \in {1, 9, 10, MaxExamples} : CreateTree(n)
  \/ \E featureIndex \in 0..4, random \in RandomDraws : CreateTreeCall(featureIndex, random)

SpecFunctions == Init /\ [][NextFunctions]_vars

\* a createTree call that has been made runs: the recursion is synchronous
SpecFunctionsFair ==
  SpecFunctions /\ WF_vars(\E featureIndex \in 0..4, random \in RandomDraws :
                             CreateTreeCall(featureIndex, random))

\* the k-th smallest (k from 0) of the values, by counting
OrderStatistic(values, k) ==
  CHOOSE v \in {values[j] : j \in 1..Len(values)} :
    /\ Cardinality({j \in 1..Len(values) : Lt(values[j], v)}) <= k
    /\ Cardinality({j \in 1..Len(values) : Le(values[j], v)}) > k

\* the mean of the values within 1.5 IQR of the quartiles, or of all values
\* when none is
MeanWithinFences(values) ==
  LET n == Len(values)
      q1 == OrderStatistic(values, n \div 4)
      q3 == OrderStatistic(values, (3 * n) \div 4)
      lo == Sub(q1, Mul(R(3, 2), Sub(q3, q1)))
      hi == Add(q3, Mul(R(3, 2), Sub(q3, q1)))
      inside == {j \in 1..n : Le(lo, values[j]) /\ Le(values[j], hi)}
      chosen == IF inside = {} THEN 1..n ELSE inside
  IN  Div(SumSeq([j \in 1..n |-> IF j \in chosen THEN values[j] ELSE Zero]),
          Int2Num(Cardinality(chosen)))

\* C22: calculateRobustAverage returns 0 for the empty sequence, x for [x],
\* and for every non-empty sequence the mean of exactly the values within
\* [Q1 - 1.5*IQR, Q3 + 1.5*IQR], Q1 and Q3 taken by the index rule on the
\* sorted sequence, or the mean of all values when none is within.
C22_RobustAverage ==
  returned.kind = "average" =>
    /\ Len(returned.values) = 0 => returned.average = Zero
    /\ Len(returned.values) = 1 => returned.average = returned.values[1]
    /\ Len(returned.values) > 0 => returned.average = MeanWithinFences(returned.values)

\* five values of which the outlier 100 is left out of the mean
C22_Witness ==
  /\ returned.kind = "average"
  /\ returned.values = <<One, One, Int2Num(100), Int2Num(2), One>>
  /\ returned.average = R(5, 4)

C23_BlendIsConvex ==
  returned.kind = "blend" =>
    \A f \in {"droughtRisk", "floodRisk"} :
      LET out == returned.prediction[f]
          parts == returned.parts
      IN  /\ \A v \in {parts[1][f]} :
               (InUnit(v) /\ parts[2][f] = v /\ parts[3][f] = v) => out = v
          /\ \E j \in 1..3 : Le(parts[j][f], out)
          /\ \E j \in 1..3 : Ge(parts[j][f], out)

\* the three sub-models agree on droughtRisk 0.95, which the ensemble
\* returns, and differ on floodRisk, where the ensemble is strictly between
C23_Witness ==
  /\ returned.kind = "blend"
  /\ \A j \in 1..3 : returned.parts[j].droughtRisk = R(95, 100)
  /\ returned.prediction.droughtRisk = R(95, 100)
  /\ \E j, k \in 1..3 :
       /\ Lt(returned.parts[j].floodRisk, returned.prediction.floodRisk)
       /\ Lt(returned.prediction.floodRisk, returned.parts[k].floodRisk)

\* C24: every training set generated at cold start, for every predictor of
\* both paths, has at least 1000 examples, at least 200 for each of the
\* five archetypes, and every droughtRisk and floodRisk label in [0,1].
C24_TrainingSetSize ==
  \A i \in Instances :
    trainRuns[i] > 0 =>
      LET data == TrainingDataOf(i)
      IN  /\ SumInt([a \in 1..Len(data) |-> data[a].count]) >= 1000
          /\ {data[a].region : a \in 1..Len(data)}
               = {"desert", "coastal", "tropical", "polar", "riverBasin"}
          /\ \A a \in 1..Len(data) :
               /\ data[a].count >= 200
               /\ InUnit(data[a].droughtRisk.lo) /\ InUnit(data[a].droughtRisk.hi)
               /\ InUnit(data[a].floodRisk.lo) /\ InUnit(data[a].floodRisk.hi)

\* C25: in every PredictionResult, dataPoints has an entry for a signal
\* exactly when the signal's toggle is on and its raw array is not empty,
\* and the entry is the mean the pipeline aggregated from the signal's raw
\* samples, untouched by the geographic adjustment, at every location.
C25_DataPointsAreRawMeans ==
  \A c \in CallIds :
    calls[c].op = "runMLPrediction" =>
      LET call == calls[c]
          dataPoints == DataPoints(call.toggles, call.raw, call.processed.statistics)
      IN  /\ DOMAIN dataPoints =
               {FeatureKeys[i] : i \in {j \in 1..5 : call.toggles[FeatureKeys[j]]
                                                      /\ Len(call.raw[j]) > 0}}
          /\ \A i \in 1..5 :
               FeatureKeys[i] \in DOMAIN dataPoints =>
                 dataPoints[FeatureKeys[i]] = AggregatedLevels(call.mgr, call.raw)[i]

\* the point is in none of the regions the path's adjustment knows
InNoRegion(mgr, lat, lon) ==
  /\ ~isDesertRegion(lat, lon) /\ ~isPolarRegion(lat, lon) /\ ~isCoastalRegion(lat, lon)
  /\ mgr = "enhanced" => (~isTropicalRegion(lat, lon) /\ ~isMountainousRegion(lat, lon))

\* C26: the geographic adjustment changes level features only and runs
\* once per request, between aggregation and normalization: on the enhanced
\* path the trend, volatility, interaction, seasonal and extreme slots and
\* quality, completeness and dataRichness are the same before and after it,
\* on the basic path quality and completeness are, and for a point in no
\* region nothing changes.
C26_AdjustmentFrame ==
  \A c \in CallIds :
    calls[c].op = "runMLPrediction" =>
      LET call == calls[c]
          lat == call.latitude
          lon == call.longitude
      IN  IF call.mgr = "enhanced"
          THEN \A before \in {aggregateDataWithTimeSeries(call.raw)} :
                 \A after \in {adjustForGeographicContextEnhanced(before, lat, lon)} :
                   /\ \A f \in {"temporalFeatures", "volatilityFeatures", "interactionFeatures",
                                "seasonalFeatures", "extremeFeatures", "quality",
                                "completeness", "dataRichness"} : after[f] = before[f]
                   /\ SubSeq(after.allFeatures, 6, 25) = SubSeq(before.allFeatures, 6, 25)
                   /\ InNoRegion("enhanced", lat, lon) => after = before
                   /\ call.processed = normalizeFeaturesEnhanced(after)
          ELSE \A before \in {aggregateData(call.raw)} :
                 \A after \in {adjustForGeographicContext(before, lat, lon)} :
                   /\ after.quality = before.quality
                   /\ after.completeness = before.completeness
                   /\ InNoRegion("basic", lat, lon) => after = before
                   /\ call.processed = normalizeFeatures(after)

\* an enhanced request at a desert point whose level features the
\* adjustment has changed
C26_Witness ==
  \E c \in CallIds :
    /\ calls[c].op = "runMLPrediction" /\ calls[c].mgr = "enhanced"
    /\ isDesertRegion(calls[c].latitude, calls[c].longitude)
    /\ \E before \in {aggregateDataWithTimeSeries(calls[c].raw)} :
         /\ adjustForGeographicContextEnhanced(before, calls[c].latitude,
                                               calls[c].longitude).basicFeatures
              # before.basicFeatures
         /\ Lt(before.quality, One)

\* C27: createTree terminates on every finite non-empty training set
\* whatever feature indices and thresholds are drawn: every recursive call
\* receives a strictly smaller non-empty subset, the two children of an
\* internal node are non-empty and partition its examples, a node is a
\* leaf exactly when it holds fewer than 10 examples or the drawn split
\* leaves one side empty, and a leaf's values are the means of the
\* droughtRisk and floodRisk of its examples.
C27_CreateTreeTerminates ==
  /\ [](returned.kind = "tree" =>
          /\ \A k \in 1..Len(returned.stack) :
               /\ returned.stack[k] # {}
               /\ returned.stack[k] \subseteq 1..Len(returned.data)
          /\ \A node \in returned.nodes :
               /\ node.examples # {}
               /\ ~node.isLeaf =>
                    /\ node.left # {} /\ node.right # {}
                    /\ node.left \cap node.right = {}
                    /\ node.left \cup node.right = node.examples
                    /\ Cardinality(node.left) < Cardinality(node.examples)
                    /\ Cardinality(node.right) < Cardinality(node.examples)
               /\ node.isLeaf <=>
                    \/ Cardinality(node.examples) < 10
                    \/ node.left \cup node.right = node.examples
                         /\ (node.left = {} \/ node.right = {})
               /\ node.isLeaf =>
                    \A label \in {"droughtRisk", "floodRisk"} :
                      /\ Mul(node[label], Int2Num(Cardinality(node.examples)))
                           = SumSeq([j \in 1..Len(returned.data) |->
                                       IF j \in node.examples THEN returned.data[j][label]
                                       ELSE Zero])
                      /\ InUnit(node[label]))
  /\ (returned.kind = "tree") ~> (returned.kind = "tree" /\ returned.stack = <<>>)

\* a finished tree over MaxExamples examples with an internal root, a leaf
\* of fewer than 10 examples and a leaf made because a split left one side
\* empty
C27_Witness ==
  /\ returned.kind = "tree"
  /\ returned.stack = <<>>
  /\ \E root \in returned.nodes : ~root.isLeaf /\ root.examples = 1..MaxExamples
  /\ \E node \in returned.nodes : node.isLeaf /\ Cardinality(node.examples) < 10
  /\ \E node \in returned.nodes :
       node.isLeaf /\ Cardinality(node.examples) >= 10 /\ node.right = {}

\* ---------------------------------------------------------------------
\* The App component: the buttons that start loadData and runPrediction
\* ---------------------------------------------------------------------

\* a click on Load Data: the button is disabled while state.isLoading
handleLoadData(c) ==
  /\ ~state.isLoading
  /\ loadData(c)

\* a click on Predict Disasters: the button is disabled while
\* state.isLoading and while fewer than 2 toggles are on
handleRunPrediction(c) ==
  /\ ~state.isLoading
  /\ selectedFeatureCount(state.selectedFeatures) >= 2
  /\ runPrediction(c)

\* a click on the map panel's load button (disabled while isLoadingData):
\* updateLocation, then setTimeout of the loadData of this render, which
\* reads the toggles and the location the render saw
handleLoadLocationData(c, lat, lng) ==
  /\ ~state.isLoading
  /\ FreeSlot(c)
  /\ state' = [state EXCEPT !.selectedLocation = [latitude |-> lat, longitude |-> lng]]
  /\ calls' = [calls EXCEPT ![c] =
       [IdleCall EXCEPT !.op = "setTimeout", !.pc = "timer",
                        !.toggles = state.selectedFeatures,
                        !.latitude = state.selectedLocation.latitude,
                        !.longitude = state.selectedLocation.longitude]]
  /\ UNCHANGED <<isTrained, trainRuns, returned, chartData, created>>

\* the 100 ms are over: the callback calls loadData, whatever isLoading is
LoadDataTimeout(c) ==
  /\ calls[c].op = "setTimeout"
  /\ state' = [state EXCEPT !.isLoading = TRUE, !.error = Null]
  /\ calls' = [calls EXCEPT ![c] =
       [calls[c] EXCEPT !.op = "loadData", !.pc = "fetch",
                        !.fetch = IssueFetches(calls[c].toggles)]]
  /\ UNCHANGED <<isTrained, trainRuns, returned, chartData, created>>

NextApp ==
  \/ \E features \in DashboardFeatures : updateFeatures(features)
  \/ \E location \in ResultsLocations : updateLocation(location.latitude, location.longitude)
  \/ \E c \in CallIds : handleLoadData(c)
  \/ \E c \in CallIds : handleRunPrediction(c)
  \/ \E c \in CallIds :
       handleLoadLocationData(c, state.selectedLocation.latitude, state.selectedLocation.longitude)
  \/ \E c \in CallIds : LoadDataTimeout(c)
  \/ \E c \in CallIds, i \in 1..5 :
       \E response \in ResultsResponses(i, calls[c].latitude, calls[c].longitude) :
         FetchSettles(c, i, response)
  \/ \E c \in CallIds : LoadDataJoin(c)
  \/ \E c \in CallIds : PredictDisastersJoin(c)
  \/ \E c \in CallIds, i \in Instances : FitDone(c, i)
  \/ \E c \in CallIds : Infer(c, DashboardOutputs, DashboardLeaves)

SpecApp == Init /\ [][NextApp]_vars

\* the calls of loadData and runPrediction that have started and not settled
Unsettled == {c \in CallIds : calls[c].op \in {"loadData", "runPrediction"}}

\* C28: in every state in which a loadData or a runPrediction has started
\* and not yet settled, state.isLoading is true
C28_LoadingWhileUnsettled == Unsettled # {} => state.isLoading

\* a runPrediction still awaits its answer, the charts are loaded and
\* isLoading is false
C28_PredictionOutlivesLoading ==
  /\ \E c \in CallIds : calls[c].op = "runPrediction"
  /\ chartData # initialChartData
  /\ ~state.isLoading

\* ---------------------------------------------------------------------
\* useDashboard with everything that can go wrong: loadData and
\* runPrediction called at any time, fetches that fail, trainings and
\* predictions that reject
\* ---------------------------------------------------------------------

NextLoading ==
  \/ \E features \in DashboardFeatures : updateFeatures(features)
  \/ \E c \in CallIds :
       /\ \/ selectedFeatureCount(state.selectedFeatures) < 2
          \/ created + Cardinality(InFlight) < MaxPredictions
       /\ runPrediction(c)
  \/ \E c \in CallIds : loadData(c)
  \/ \E c \in CallIds, i \in 1..5 :
       \E response \in FetchResponses(i, calls[c].latitude, calls[c].longitude) :
         FetchSettles(c, i, response)
  \/ \E c \in CallIds : LoadDataJoin(c)
  \/ \E c \in CallIds : PredictDisastersJoin(c)
  \/ \E c \in CallIds, i \in Instances : FitDone(c, i)
  \/ \E c \in CallIds, i \in Instances : FitFails(c, i)
  \/ \E c \in CallIds : Infer(c, DashboardOutputs, DashboardLeaves)
  \/ \E c \in CallIds : InferFails(c)

SpecLoading == Init /\ [][NextLoading]_vars

\* runPrediction has all its fetch results and has not gone on yet
JoinReady(c) == calls[c].op = "runPrediction" /\ calls[c].pc = "fetch" /\ AllSettled(calls[c])

\* every data fetch and every training and prediction step completes, with
\* a result or with an error, and the code after an await runs.  The last
\* conjunct is WF_vars(PredictDisastersJoin(c)) written out:
\* PredictDisastersJoin(c) is enabled exactly when JoinReady(c) holds, and a
\* step of it leaves JoinReady(c) false.
SpecLoadingFair ==
  /\ SpecLoading
  /\ \A c \in CallIds, i \in 1..5 :
       WF_vars(\E response \in FetchResponses(i, calls[c].latitude, calls[c].longitude) :
                 FetchSettles(c, i, response))
  /\ \A c \in CallIds : WF_vars(LoadDataJoin(c))
  /\ \A c \in CallIds, i \in Instances : WF_vars(FitDone(c, i) \/ FitFails(c, i))
  /\ \A c \in CallIds : WF_vars(InferFails(c) \/ Infer(c, DashboardOutputs, DashboardLeaves))
  /\ \A c \in CallIds : []<>~JoinReady(c)

\* C29: every started loadData and runPrediction settles, the step that
\* settles it leaves isLoading false, isLoading is true only while a call is
\* unsettled, and a dashboard that is loading stops loading
C29_LoadingEnds ==
  /\ [](state.isLoading => Unsettled # {})
  /\ [][\A c \in CallIds :
          (c \in Unsettled /\ calls'[c].op \notin {"loadData", "runPrediction"})
            => ~state'.isLoading]_vars
  /\ \A c \in CallIds : (c \in Unsettled) ~> (c \notin Unsettled)
  /\ state.isLoading ~> ~state.isLoading

\* a loadData has settled after a failed fetch, and a runPrediction after a
\* rejected training: nothing is in flight and isLoading is false
C29_Witness ==
  /\ Unsettled = {}
  /\ ~state.isLoading
  /\ state.error = ModelError
  /\ chartData.soilMoisture = <<>>
  /\ chartData.surfaceTemperature # <<>>

====
